---- MODULE Spec2Model ----
(***************************************************************************)
(* OpenMapCalender: the calendar server (multi-calendar server script,     *)
(* src/unnamed/part_003; the older single-calendar src/server.js shares    *)
(* normalizeState / flattenEvents / groupByDay / mergeState verbatim) and  *)
(* the browser client's load / poll / save effects                         *)
(* (src/src/components/MapView.tsx, function App).                         *)
(*                                                                         *)
(* Representation.                                                         *)
(*  - A schedule state is a record numDays, startDate, startHour, endHour, *)
(*    viewMode, events.  normalizeState builds the object with exactly     *)
(*    these keys in this order and mergeState copies it with a spread, so  *)
(*    the key order of every state the server compares is the same.        *)
(*  - events is a JS object keyed by day index.  Integer-like keys of a JS *)
(*    object enumerate in ascending numeric order whatever the insertion   *)
(*    order, so the object is a function from a finite set of naturals to  *)
(*    sequences of events, enumerated by ascending key.                    *)
(*  - An event is a record id, dayIndex, startMinutes (the remaining       *)
(*    TimeBlock fields are carried along untouched by every code path      *)
(*    modelled here).  Id 0 stands for a falsy id.                         *)
(*  - deepEqual is JSON.stringify equality; over this representation it is *)
(*    structural equality.                                                 *)
(***************************************************************************)
EXTENDS Integers, Sequences, FiniteSets, TLC

VARIABLES
    mCurrent,   \* mergeState argument current
    mBase,      \* mergeState argument base
    mIncoming,  \* mergeState argument incoming
    mMerged,    \* mergeState result
    mPc,        \* "idle" | "input" | "done"
    calendars,  \* the server's in-memory Map: id -> name, state, revision, updatedAt
    disk,       \* the calendars directory: id -> name, state, updatedAt
    now,        \* the server's clock (what new Date() reads)
    bootTime,   \* the clock when the server script was loaded (DEFAULT_STATE.startDate)
    req,        \* history: the request the server handled last
    resp,       \* history: the response it gave
    pre,        \* history: calendars and disk as they were before that request
    clients,    \* per browser tab: the state and refs of function App
    saveReqs,   \* Save requests sent and not yet handled by the server
    saveResps,  \* Save responses (or failures) not yet delivered to the client
    getResps,   \* per browser tab: the Get response on its way to it, if any
    edits,      \* how many user edits have been made
    restarts,   \* how many times the server process has been restarted
    returned,   \* history: per calendar id ever in the Map, the revisions that
                \* state-changing Saves have returned since the process started
    legacy,     \* the legacy file calendar-data.json: whether it exists, its content
    up,         \* whether the server process is running
    imports,    \* history: the ids under which the legacy file was imported
    gone,       \* history: the ids of the calendars a Delete was answered 200 for
    served      \* history: one Get or Save response a client was sent since the
                \* process started (kind, calendar id, revision, state), or none

mergeVars == <<mCurrent, mBase, mIncoming, mMerged, mPc>>

serverVars == <<calendars, disk, now, bootTime, req, resp, pre>>

clientVars == <<clients, saveReqs, saveResps, getResps, edits, restarts>>

----------------------------------------------------------------------------
(* Bounds of the model *)

\* startMinutes of the events of the merge inputs range over 0..MaxStart
MaxStart == 1

\* a Save that would raise a calendar's revision above MaxRevision is not taken
MaxRevision == 2

\* the registry's clock stops at MaxTime: no timestamp after it is recorded
MaxTime == 4

\* calendar ids (uuids in the code)
CalIds == {"c1", "c2"}

\* day indexes used by the inputs
Days == {0, 1}

\* event ids used by the inputs (0 is the falsy id and never a real id)
EventIds == {1, 2}

NoId == 0

----------------------------------------------------------------------------
(* Generic helpers *)

Min(S) == CHOOSE x \in S : \A y \in S : x <= y

RECURSIVE SetToSortedSeq(_)
SetToSortedSeq(S) ==
    IF S = {} THEN <<>>
    ELSE LET m == Min(S) IN <<m>> \o SetToSortedSeq(S \ {m})

RECURSIVE Flat(_)
Flat(seqs) == IF seqs = <<>> THEN <<>> ELSE Head(seqs) \o Flat(Tail(seqs))

\* Object.values(obj) for an object with integer-like keys: ascending key order
ObjectValues(obj) ==
    LET keys == SetToSortedSeq(DOMAIN obj)
    IN  [i \in 1..Len(keys) |-> obj[keys[i]]]

----------------------------------------------------------------------------
(* JS Map keyed by event id: a sequence of events with pairwise distinct   *)
(* ids, in insertion order.                                                *)

MapHas(m, id) == \E i \in 1..Len(m) : m[i].id = id

MapGet(m, id) == m[CHOOSE i \in 1..Len(m) : m[i].id = id]

\* mutant of MapSet: an entry is added only when the key is new, an existing
\* entry is never overwritten
MapSetIfAbsent(m, ev) ==
    IF MapHas(m, ev.id) THEN m ELSE Append(m, ev)

\* Map.prototype.set: an existing key keeps its position
MapSet(m, ev) ==
    IF MapHas(m, ev.id)
    THEN [i \in 1..Len(m) |-> IF m[i].id = ev.id THEN ev ELSE m[i]]
    ELSE Append(m, ev)

MapDelete(m, id) == SelectSeq(m, LAMBDA e : e.id # id)

MapKeys(m) == {m[i].id : i \in 1..Len(m)}

----------------------------------------------------------------------------
(* The merge engine *)

deepEqual(a, b) == a = b

RECURSIVE FlattenInto(_, _)
FlattenInto(evs, acc) ==
    IF evs = <<>> THEN acc
    ELSE LET ev == Head(evs)
         IN  IF ev.id = NoId
             THEN FlattenInto(Tail(evs), acc)
             ELSE FlattenInto(Tail(evs), MapSet(acc, ev))

flattenEvents(eventsByDay) == FlattenInto(Flat(ObjectValues(eventsByDay)), <<>>)

\* Array.prototype.sort with (a, b) => a.startMinutes - b.startMinutes: a
\* stable sort, so events with equal startMinutes keep their relative order
\* mutant of SortKeys: an unstable sort, which gives events of equal
\* startMinutes in the reverse of their order in the bucket
RECURSIVE SortKeysUnstable(_, _)
SortKeysUnstable(s, keys) ==
    IF keys = {} THEN <<>>
    ELSE LET k == Min(keys)
             ties == SelectSeq(s, LAMBDA e : e.startMinutes = k)
         IN  [n \in 1..Len(ties) |-> ties[Len(ties) + 1 - n]] \o SortKeysUnstable(s, keys \ {k})

RECURSIVE SortKeys(_, _)
SortKeys(s, keys) ==
    IF keys = {} THEN <<>>
    ELSE LET k == Min(keys)
         IN  SelectSeq(s, LAMBDA e : e.startMinutes = k) \o SortKeys(s, keys \ {k})

\* mutant of SortByStart: the bucket is left in insertion order
SortByStartKeepOrder(s) == s

\* dayEvents.sort((a, b) => a.startMinutes - b.startMinutes), a stable sort
SortByStart(s) == SortKeys(s, {s[i].startMinutes : i \in 1..Len(s)})

\* mutant of groupByDay: every event is put into the bucket of day 0
groupByDayUnderZero(eventsMap) ==
    IF eventsMap = <<>> THEN <<>> ELSE (0 :> SortByStart(eventsMap))

groupByDay(eventsMap) ==
    LET days == {eventsMap[i].dayIndex : i \in 1..Len(eventsMap)}
    IN  [d \in days |-> SortByStart(SelectSeq(eventsMap, LAMBDA e : e.dayIndex = d))]

ScalarKeys == {"numDays", "startDate", "startHour", "endHour", "viewMode"}

\* mutant of ApplyIncoming: every incoming event is set, changed or not
RECURSIVE ApplyIncomingAlways(_, _, _)
ApplyIncomingAlways(incomingMap, baseMap, currentMap) ==
    IF incomingMap = <<>> THEN currentMap
    ELSE ApplyIncomingAlways(Tail(incomingMap), baseMap, MapSet(currentMap, Head(incomingMap)))

RECURSIVE ApplyIncoming(_, _, _)
ApplyIncoming(incomingMap, baseMap, currentMap) ==
    IF incomingMap = <<>> THEN currentMap
    ELSE LET incomingEvent == Head(incomingMap)
             changed == ~ (MapHas(baseMap, incomingEvent.id)
                           /\ deepEqual(incomingEvent, MapGet(baseMap, incomingEvent.id)))
         IN  ApplyIncoming(Tail(incomingMap), baseMap,
                           IF changed THEN MapSet(currentMap, incomingEvent) ELSE currentMap)

\* mutant of ApplyDeletes: a deletion is applied only when current still
\* holds the base version (a concurrent edit survives the delete)
ApplyDeletesUnlessEdited(baseMap, incomingMap, currentMap) ==
    SelectSeq(currentMap,
              LAMBDA e : ~ (/\ MapHas(baseMap, e.id)
                            /\ ~ MapHas(incomingMap, e.id)
                            /\ MapGet(baseMap, e.id) = e))

RECURSIVE ApplyDeletes(_, _, _)
ApplyDeletes(baseMap, incomingMap, currentMap) ==
    IF baseMap = <<>> THEN currentMap
    ELSE LET id == Head(baseMap).id
         IN  ApplyDeletes(Tail(baseMap), incomingMap,
                          IF ~ MapHas(incomingMap, id) THEN MapDelete(currentMap, id) ELSE currentMap)

\* mutant of mergeScalar: the saving client's value always wins
mergeScalarIncomingWins(key, current, base, incoming) == incoming[key]

mergeScalar(key, current, base, incoming) ==
    IF ~ deepEqual(incoming[key], base[key]) THEN incoming[key] ELSE current[key]

\* mutant of mergeEvents: the working map starts from base instead of current
mergeEventsFromBase(current, base, incoming) ==
    LET baseMap == flattenEvents(base.events)
        incomingMap == flattenEvents(incoming.events)
        afterIncoming == ApplyIncoming(incomingMap, baseMap, baseMap)
        afterDeletes == ApplyDeletes(baseMap, incomingMap, afterIncoming)
    IN  groupByDay(afterDeletes)

mergeEvents(current, base, incoming) ==
    LET baseMap == flattenEvents(base.events)
        incomingMap == flattenEvents(incoming.events)
        currentMap == flattenEvents(current.events)
        afterIncoming == ApplyIncoming(incomingMap, baseMap, currentMap)
        afterDeletes == ApplyDeletes(baseMap, incomingMap, afterIncoming)
    IN  groupByDay(afterDeletes)

mergeState(current, base, incoming) ==
    [k \in DOMAIN current |->
        IF k = "events" THEN mergeEvents(current, base, incoming)
        ELSE IF k \in ScalarKeys THEN mergeScalar(k, current, base, incoming)
        ELSE current[k]]

\* mutant of argumentsAfterMerge: the buckets of current are sorted in place
argumentsAfterMergeSortedInPlace(current, base, incoming) ==
    <<[current EXCEPT !.events = [d \in DOMAIN current.events |-> SortByStart(current.events[d])]],
      base, incoming>>

\* The three argument objects after a call of mergeState.  The function
\* assigns to merged, a shallow copy of current, to the Maps flattenEvents
\* builds, and sorts the arrays groupByDay builds; it assigns to no property
\* of an argument, of a bucket of an argument or of an event.
argumentsAfterMerge(current, base, incoming) == <<current, base, incoming>>

----------------------------------------------------------------------------
(* Inputs of the merge engine *)

Events == [id : EventIds, dayIndex : Days, startMinutes : 0..MaxStart]

\* sets of events with pairwise distinct ids
EventSets ==
    {E \in SUBSET Events : \A e, f \in E : e.id = f.id => e = f}

RECURSIVE Perms(_)
Perms(S) ==
    IF S = {} THEN {<<>>}
    ELSE UNION {{<<e>> \o p : p \in Perms(S \ {e})} : e \in S}

\* the events objects that hold the events of E, each in the bucket of its own
\* dayIndex, in any order inside the bucket (the client appends a new event to
\* its bucket, so a bucket need not be sorted)
BucketMapsOf(E) ==
    LET days == {e.dayIndex : e \in E}
        bucket(d) == {e \in E : e.dayIndex = d}
    IN  {f \in [days -> UNION {Perms(bucket(d)) : d \in days}] :
            \A d \in days : f[d] \in Perms(bucket(d))}

BucketMaps == UNION {BucketMapsOf(E) : E \in EventSets}

Settings ==
    [numDays : {5, 7}, startDate : {"2026-01-01", "2026-02-01"},
     startHour : {7, 8}, endHour : {22, 23}, viewMode : {"row", "grid"}]

MkState(s, ev) ==
    [numDays |-> s.numDays, startDate |-> s.startDate, startHour |-> s.startHour,
     endHour |-> s.endHour, viewMode |-> s.viewMode, events |-> ev]

SettingsOf(st) ==
    [numDays |-> st.numDays, startDate |-> st.startDate, startHour |-> st.startHour,
     endHour |-> st.endHour, viewMode |-> st.viewMode]

BaseSettings ==
    [numDays |-> 5, startDate |-> "2026-01-01", startHour |-> 7, endHour |-> 22,
     viewMode |-> "row"]

Ev(id, day, start) == [id |-> id, dayIndex |-> day, startMinutes |-> start]

\* base is what the server sent the client, so its buckets are as groupByDay
\* or the server's store left them; its order never reaches the result (base
\* is only looked up by id), and it ranges over the sorted events objects.
SortedBucketMaps == {groupByDay(flattenEvents(m)) : m \in BucketMaps}

\* events objects that are not in the shape groupByDay produces: an empty
\* bucket, events stored under a key that is not their dayIndex
OddBucketMaps ==
    {(0 :> <<>>),
     (0 :> <<Ev(1, 1, 0)>>),
     (1 :> <<Ev(2, 0, 1), Ev(1, 0, 0)>>),
     (0 :> <<Ev(1, 0, 1)>> @@ 1 :> <<>>),
     (0 :> <<Ev(2, 1, 1)>> @@ 1 :> <<Ev(1, 1, 0)>>),
     <<>>,
     (0 :> <<Ev(1, 0, 0), Ev(2, 0, 1)>>)}

\* The triples (current, base, incoming) the merge engine is run on: every
\* combination of settings over one fixed event scenario,
ScalarInputs ==
    \E c, b, i \in Settings :
        /\ mCurrent = MkState(c, (0 :> <<Ev(1, 0, 0), Ev(2, 0, 1)>>))
        /\ mBase = MkState(b, (0 :> <<Ev(1, 0, 0)>>))
        /\ mIncoming = MkState(i, (1 :> <<Ev(1, 1, 0)>>))

\* every combination of events objects over one fixed combination of settings,
EventInputs ==
    \E c, i \in BucketMaps, b \in SortedBucketMaps :
        /\ mCurrent = MkState([BaseSettings EXCEPT !.viewMode = "grid"], c)
        /\ mBase = MkState(BaseSettings, b)
        /\ mIncoming = MkState([BaseSettings EXCEPT !.viewMode = "day"], i)

\* and every combination of the odd events objects.
OddInputs ==
    \E c, b, i \in OddBucketMaps :
        /\ mCurrent = MkState(BaseSettings, c)
        /\ mBase = MkState(BaseSettings, b)
        /\ mIncoming = MkState(BaseSettings, i)

\* and a client that changed nothing: incoming is the base it was sent, which
\* may be any events object, and current is a state in the form groupByDay
\* leaves, with settings that moved on since or not.
NoEditInputs ==
    \E c \in SortedBucketMaps, b \in BucketMaps \cup OddBucketMaps,
       s \in {BaseSettings, [BaseSettings EXCEPT !.numDays = 7, !.viewMode = "grid"]} :
        /\ mCurrent = MkState(s, c)
        /\ mBase = MkState(BaseSettings, b)
        /\ mIncoming = MkState(BaseSettings, b)

----------------------------------------------------------------------------
(* Raw JSON values of a request body.  A raw number field is a JSON number, *)
(* a value Number() converts to a finite number ("7", true, ""), a value    *)
(* Number() converts to NaN ("abc", {}), or missing (undefined or null).    *)
(* A raw string field is a string, another value, or missing.               *)

RawNum(n) == [kind |-> "number", num |-> n]
RawCoercible(n) == [kind |-> "coercible", num |-> n]
RawNaN == [kind |-> "nan", num |-> 0]
MissingNum == [kind |-> "missing", num |-> 0]

RawStr(str) == [kind |-> "string", str |-> str]
RawOther(str) == [kind |-> "other", str |-> str]
MissingStr == [kind |-> "missing", str |-> ""]

RawObject(buckets) == [kind |-> "object", buckets |-> buckets]
MissingObject == [kind |-> "missing", buckets |-> <<>>]

NoSettings ==
    [numDays |-> MissingNum, startHour |-> MissingNum, endHour |-> MissingNum,
     viewMode |-> MissingStr]

\* a raw state none of whose fields is present (also a body that is no object)
EmptyRaw ==
    [numDays |-> MissingNum, startDate |-> MissingStr, startHour |-> MissingNum,
     endHour |-> MissingNum, viewMode |-> MissingStr, events |-> MissingObject,
     settings |-> NoSettings]

\* JSON.stringify of a client state, parsed by express.json()
toJSON(st) ==
    [numDays |-> RawNum(st.numDays), startDate |-> RawStr(st.startDate),
     startHour |-> RawNum(st.startHour), endHour |-> RawNum(st.endHour),
     viewMode |-> RawStr(st.viewMode), events |-> RawObject(st.events),
     settings |-> NoSettings]

\* a ?? b
Coalesce(a, b) == IF a.kind = "missing" THEN b ELSE a

\* Number(x) with Number.isFinite of the result
ToNumber(x) == [finite |-> x.kind \in {"number", "coercible"}, val |-> x.num]

\* new Date(t).toISOString()
toISOString(t) == ToString(t)

DEFAULT_STATE ==
    [numDays |-> 5, startDate |-> toISOString(bootTime), startHour |-> 7, endHour |-> 22,
     viewMode |-> "row", events |-> <<>>]

normalizeState(raw) ==
    LET settings == raw.settings
        numDays == ToNumber(Coalesce(raw.numDays, settings.numDays))
        startHour == ToNumber(Coalesce(raw.startHour, settings.startHour))
        endHour == ToNumber(Coalesce(raw.endHour, settings.endHour))
        viewMode == Coalesce(raw.viewMode, settings.viewMode)
    IN  [numDays |-> IF numDays.finite /\ numDays.val > 0 THEN numDays.val
                     ELSE DEFAULT_STATE.numDays,
         startDate |-> IF raw.startDate.kind = "string" THEN raw.startDate.str
                       ELSE DEFAULT_STATE.startDate,
         startHour |-> IF startHour.finite THEN startHour.val ELSE DEFAULT_STATE.startHour,
         endHour |-> IF endHour.finite THEN endHour.val ELSE DEFAULT_STATE.endHour,
         viewMode |-> IF viewMode.kind = "missing" THEN DEFAULT_STATE.viewMode
                      ELSE viewMode.str,
         events |-> IF raw.events.kind = "object" THEN raw.events.buckets ELSE <<>>]

----------------------------------------------------------------------------
(* The calendar store *)

\* what writeCalendarToDisk writes into calendars/<id>.json
FileOf(data) == [name |-> data.name, state |-> data.state, updatedAt |-> data.updatedAt]

\* mutant of writeCalendarToDisk: one file for all calendars, as in the
\* legacy layout
writeCalendarToDiskShared(d, id, data) == [i \in DOMAIN d \cup {id} |-> FileOf(data)]

writeCalendarToDisk(d, id, data) ==
    [i \in DOMAIN d \cup {id} |-> IF i = id THEN FileOf(data) ELSE d[i]]

\* a raw baseRevision: an integer or anything else (missing, "1", 1.5)
RevInt(n) == [kind |-> "integer", num |-> n]
RevOther == [kind |-> "other", num |-> 0]

NoRequest ==
    [op |-> "none", id |-> "", state |-> EmptyRaw, hasBaseState |-> FALSE,
     baseState |-> EmptyRaw, baseRevision |-> RevOther]

SaveRequest(id, body) ==
    [op |-> "save", id |-> id, state |-> body.state, hasBaseState |-> body.hasBaseState,
     baseState |-> body.baseState, baseRevision |-> body.baseRevision]

NoResponse == [status |-> 0, state |-> MkState(BaseSettings, <<>>), revision |-> 0]

ErrorResponse(status) == [status |-> status, state |-> MkState(BaseSettings, <<>>), revision |-> 0]

SaveResponse(cal) == [status |-> 200, state |-> cal.state, revision |-> cal.revision]

Snapshot == [calendars |-> calendars, disk |-> disk]

\* mutant of saveNextState: a save that carries a base state is merged even
\* when its baseRevision is the current revision or is no integer
saveNextStateAlwaysMerge(cal, body) ==
    LET incoming == normalizeState(body.state)
    IN  IF body.hasBaseState
        THEN mergeState(cal.state, normalizeState(body.baseState), incoming)
        ELSE incoming

\* mutant of saveNextState: the incoming state is adopted whatever the revision
saveNextStateVerbatim(cal, body) == normalizeState(body.state)

\* the state a Save adopts: incoming verbatim, or the three-way merge
saveNextState(cal, body) ==
    LET incoming == normalizeState(body.state)
        hasBase == body.hasBaseState
        hasBaseRevision == body.baseRevision.kind = "integer"
    IN  IF hasBaseRevision /\ body.baseRevision.num # cal.revision /\ hasBase
        THEN mergeState(cal.state, normalizeState(body.baseState), incoming)
        ELSE incoming

\* mutant of saveIsNoop: every save is written
saveNeverNoop(nextState, cal) == FALSE

saveIsNoop(nextState, cal) == deepEqual(nextState, cal.state)

\* mutant of saveApply: the revision is not incremented
saveApplyKeepRevision(cal, nextState, t) ==
    [cal EXCEPT !.state = nextState, !.updatedAt = t]

saveApply(cal, nextState, t) ==
    [cal EXCEPT !.state = nextState, !.revision = @ + 1, !.updatedAt = t]

\* POST /api/calendars/:id.  diskOk: whether fs.writeFileSync succeeds.
ServeSave(id, body, diskOk) ==
    /\ req' = SaveRequest(id, body)
    /\ pre' = Snapshot
    /\ UNCHANGED bootTime
    /\ IF id \notin DOMAIN calendars
       THEN /\ resp' = ErrorResponse(404)
            /\ UNCHANGED <<calendars, disk, now>>
       ELSE LET cal == calendars[id]
                nextState == saveNextState(cal, body)
            IN  IF saveIsNoop(nextState, cal)
                THEN /\ resp' = SaveResponse(cal)
                     /\ UNCHANGED <<calendars, disk, now>>
                ELSE LET written == saveApply(cal, nextState, now)
                     IN  /\ cal.revision < MaxRevision
                         /\ calendars' = [calendars EXCEPT ![id] = written]
                         /\ now' = now + 1
                         /\ IF diskOk
                            THEN /\ disk' = writeCalendarToDisk(disk, id, written)
                                 /\ resp' = SaveResponse(written)
                            ELSE /\ disk' = disk
                                 /\ resp' = ErrorResponse(500)

----------------------------------------------------------------------------
(* The registry handlers: Create, Rename, Delete.  A name in a request body *)
(* is a raw string value.  The record Create puts into the Map also carries *)
(* its id, which no handler reads; it is left out.                          *)

\* a raw value as a JS condition sees it: undefined, null, "", 0 and false
\* are falsy
Truthy(raw) ==
    CASE raw.kind = "missing" -> FALSE
      [] raw.kind = "string" -> raw.str # ""
      [] OTHER -> raw.str \notin {"0", "false", "null"}

RegistryRequest(op, id, name) == [op |-> op, id |-> id, name |-> name]

RegistryResponse(status, id, name) == [status |-> status, id |-> id, name |-> name]

\* mutant of generateId: an id that may be in use
generateIdReused == CHOOSE id \in CalIds : TRUE

\* crypto.randomUUID(): an id that was never in the Map
generateId == CHOOSE id \in CalIds \ DOMAIN returned : TRUE

\* POST /api/calendars.  diskOk: whether fs.writeFileSync succeeds.
ServeCreate(name, diskOk) ==
    LET id == generateId
        calName == IF Truthy(name) THEN name.str ELSE "Untitled"
        calData == [name |-> calName,
                    state |-> [DEFAULT_STATE EXCEPT !.startDate = toISOString(now)],
                    revision |-> 0,
                    updatedAt |-> now]
    IN  /\ req' = RegistryRequest("create", id, name)
        /\ pre' = Snapshot
        /\ UNCHANGED bootTime
        /\ IF diskOk
           THEN /\ disk' = writeCalendarToDisk(disk, id, calData)
                /\ calendars' = [i \in DOMAIN calendars \cup {id} |->
                                    IF i = id THEN calData ELSE calendars[i]]
                /\ returned' = [i \in DOMAIN returned \cup {id} |->
                                    IF i = id THEN <<>> ELSE returned[i]]
                /\ now' = now + 1
                /\ resp' = RegistryResponse(200, id, calName)
           ELSE /\ UNCHANGED <<calendars, disk, returned, now>>
                /\ resp' = RegistryResponse(500, "", "")

\* mutant of renameNameOk: the typeof check is left out
renameNameOkTruthy(name) == Truthy(name)

\* !(!name || typeof name !== 'string')
renameNameOk(name) == Truthy(name) /\ name.kind = "string"

\* mutant of renameApply: a rename counts as a change of the schedule
renameApplyBumpRevision(cal, name, t) ==
    [cal EXCEPT !.name = name, !.revision = @ + 1, !.updatedAt = t]

renameApply(cal, name, t) == [cal EXCEPT !.name = name, !.updatedAt = t]

\* PUT /api/calendars/:id/rename.  The handler has no try/catch: when
\* fs.writeFileSync throws, Express answers 500.
ServeRename(id, name, diskOk) ==
    /\ req' = RegistryRequest("rename", id, name)
    /\ pre' = Snapshot
    /\ UNCHANGED <<bootTime, returned>>
    /\ IF id \notin DOMAIN calendars
       THEN /\ resp' = RegistryResponse(404, "", "")
            /\ UNCHANGED <<calendars, disk, now>>
       ELSE IF ~ renameNameOk(name)
       THEN /\ resp' = RegistryResponse(400, "", "")
            /\ UNCHANGED <<calendars, disk, now>>
       ELSE LET renamed == renameApply(calendars[id], name.str, now)
            IN  /\ calendars' = [calendars EXCEPT ![id] = renamed]
                /\ now' = now + 1
                /\ IF diskOk
                   THEN /\ disk' = writeCalendarToDisk(disk, id, renamed)
                        /\ resp' = RegistryResponse(200, id, renamed.name)
                   ELSE /\ disk' = disk
                        /\ resp' = RegistryResponse(500, "", "")

\* mutant of deleteCalendarFromDisk: the file is left where it is
deleteCalendarFromDiskKept(d, id) == d

deleteCalendarFromDisk(d, id) == [i \in DOMAIN d \ {id} |-> d[i]]

\* the orders in which a Map with these keys may be iterated (the insertion
\* order, which the model does not keep)
Orders(S) ==
    {o \in [1..Cardinality(S) -> S] : \A i, j \in 1..Cardinality(S) : i # j => o[i] # o[j]}

\* mutant of SortByUpdatedAt: oldest first
RECURSIVE SortByUpdatedAtAscending(_)
SortByUpdatedAtAscending(list) ==
    IF list = <<>> THEN <<>>
    ELSE LET t == Min({list[i].updatedAt : i \in 1..Len(list)})
         IN  SelectSeq(list, LAMBDA e : e.updatedAt = t)
                \o SortByUpdatedAtAscending(SelectSeq(list, LAMBDA e : e.updatedAt # t))

\* list.sort((a, b) => time(b.updatedAt) - time(a.updatedAt)): latest first,
\* entries of equal time in their order in the list (the sort is stable)
RECURSIVE SortByUpdatedAt(_)
SortByUpdatedAt(list) ==
    IF list = <<>> THEN <<>>
    ELSE LET t == CHOOSE u \in {list[i].updatedAt : i \in 1..Len(list)} :
                     \A i \in 1..Len(list) : list[i].updatedAt <= u
         IN  SelectSeq(list, LAMBDA e : e.updatedAt = t)
                \o SortByUpdatedAt(SelectSeq(list, LAMBDA e : e.updatedAt # t))

ListResponse(list) == [status |-> 200, list |-> list]

\* GET /api/calendars.  entries: the Map's keys in iteration order.
ServeList(entries) ==
    /\ req' = RegistryRequest("list", "", MissingStr)
    /\ pre' = Snapshot
    /\ resp' = ListResponse(SortByUpdatedAt(
                  [k \in 1..Len(entries) |->
                      [id |-> entries[k], name |-> calendars[entries[k]].name,
                       updatedAt |-> calendars[entries[k]].updatedAt]]))
    /\ UNCHANGED <<calendars, disk, now, bootTime, returned>>

\* mutant of ServeDelete: the id is not looked up before the deletion
ServeDeleteUnchecked(id) ==
    /\ req' = RegistryRequest("delete", id, MissingStr)
    /\ pre' = Snapshot
    /\ UNCHANGED <<bootTime, returned, now>>
    /\ calendars' = [i \in DOMAIN calendars \ {id} |-> calendars[i]]
    /\ disk' = deleteCalendarFromDisk(disk, id)
    /\ resp' = RegistryResponse(200, id, "")
    /\ gone' = gone \cup {id}

\* DELETE /api/calendars/:id
ServeDelete(id) ==
    /\ req' = RegistryRequest("delete", id, MissingStr)
    /\ pre' = Snapshot
    /\ UNCHANGED <<bootTime, returned, now>>
    /\ IF id \notin DOMAIN calendars
       THEN /\ resp' = RegistryResponse(404, "", "")
            /\ UNCHANGED <<calendars, disk, gone>>
       ELSE /\ calendars' = [i \in DOMAIN calendars \ {id} |-> calendars[i]]
            /\ disk' = deleteCalendarFromDisk(disk, id)
            /\ resp' = RegistryResponse(200, id, "")
            /\ gone' = gone \cup {id}

----------------------------------------------------------------------------
(* The legacy endpoints GET and POST /api/calendar, which address the        *)
(* calendar that was updated last.  A legacy body holds the state under the  *)
(* key state (hasState) or is the state itself (top); the old client also    *)
(* sends baseState and baseRevision, which the handler never reads.          *)

LegacyRequest(op, id, body) == [op |-> op, id |-> id, body |-> body]

\* req.body?.state ?? req.body
legacyPayload(body) == IF body.hasState THEN body.state ELSE body.top

\* list[0] of [...calendars.values()].sort(...).  entries: the Map's keys in
\* iteration order, not empty.
MostRecent(entries) ==
    SortByUpdatedAt(
        [k \in 1..Len(entries) |->
            [id |-> entries[k], updatedAt |-> calendars[entries[k]].updatedAt]])[1].id

\* mutant of legacyApply: the revision is left as it is
legacyApplyKeepRevision(cal, incoming, t) ==
    [cal EXCEPT !.state = incoming, !.updatedAt = t]

\* mutant of legacyApply: a state deep-equal to the stored one is a no-op,
\* as in the Save of a calendar by id
legacyApplyIfChanged(cal, incoming, t) ==
    IF deepEqual(incoming, cal.state) THEN cal
    ELSE [cal EXCEPT !.state = incoming, !.revision = @ + 1, !.updatedAt = t]

\* cal.state = incoming; cal.revision += 1; cal.updatedAt = new Date().toISOString()
legacyApply(cal, incoming, t) ==
    [cal EXCEPT !.state = incoming, !.revision = @ + 1, !.updatedAt = t]

\* GET /api/calendar
ServeLegacyGet(entries) ==
    /\ pre' = Snapshot
    /\ UNCHANGED <<calendars, disk, now, bootTime, returned>>
    /\ IF entries = <<>>
       THEN /\ req' = LegacyRequest("legacyGet", "", <<>>)
            /\ resp' = [status |-> 200, state |-> DEFAULT_STATE, revision |-> 0]
       ELSE /\ req' = LegacyRequest("legacyGet", MostRecent(entries), <<>>)
            /\ resp' = SaveResponse(calendars[MostRecent(entries)])

\* POST /api/calendar.  diskOk: whether fs.writeFileSync succeeds.
ServeLegacySave(entries, body, diskOk) ==
    /\ pre' = Snapshot
    /\ UNCHANGED <<bootTime, returned>>
    /\ IF entries = <<>>
       THEN /\ req' = LegacyRequest("legacySave", "", body)
            /\ resp' = ErrorResponse(404)
            /\ UNCHANGED <<calendars, disk, now>>
       ELSE LET id == MostRecent(entries)
                written == legacyApply(calendars[id], normalizeState(legacyPayload(body)), now)
            IN  /\ req' = LegacyRequest("legacySave", id, body)
                /\ calendars[id].revision < MaxRevision
                /\ calendars' = [calendars EXCEPT ![id] = written]
                /\ now' = now + 1
                /\ IF diskOk
                   THEN /\ disk' = writeCalendarToDisk(disk, id, written)
                        /\ resp' = SaveResponse(written)
                   ELSE /\ disk' = disk
                        /\ resp' = ErrorResponse(500)

----------------------------------------------------------------------------
(* Requests of the store specification *)

StoreBucketMaps ==
    {<<>>,
     (0 :> <<Ev(1, 0, 0)>>),
     (0 :> <<Ev(1, 0, 1)>>),
     (0 :> <<Ev(1, 0, 0), Ev(2, 0, 1)>>),
     (0 :> <<Ev(2, 0, 1), Ev(1, 0, 0)>>),
     (0 :> <<>>),
     (1 :> <<Ev(1, 0, 0)>>)}

GridSettings == [BaseSettings EXCEPT !.viewMode = "grid"]

\* a body with values of the wrong types, and a body in the legacy layout
\* with the settings nested
MalformedRaws ==
    {EmptyRaw,
     [EmptyRaw EXCEPT !.numDays = RawNum(0), !.startDate = RawOther("0"),
                      !.startHour = RawCoercible(8), !.endHour = RawNaN,
                      !.viewMode = RawStr("bogus"),
                      !.events = RawObject((0 :> <<Ev(1, 0, 0)>>))],
     [EmptyRaw EXCEPT !.startDate = RawStr("2026-02-01"),
                      !.settings = [numDays |-> RawNum(7), startHour |-> RawNum(8),
                                    endHour |-> RawNum(23), viewMode |-> RawStr("grid")]]}

SaveRaws ==
    {toJSON(MkState(BaseSettings, ev)) : ev \in StoreBucketMaps}
        \cup {toJSON(MkState(GridSettings, <<>>)),
              toJSON(MkState(GridSettings, (0 :> <<Ev(1, 0, 0)>>)))}
        \cup MalformedRaws

BaseRevisions == {RevInt(n) : n \in 0..MaxRevision} \cup {RevOther}

SaveBodies ==
    {[state |-> st, hasBaseState |-> TRUE, baseState |-> b, baseRevision |-> r] :
        st \in SaveRaws, b \in SaveRaws, r \in BaseRevisions}
    \cup
    {[state |-> st, hasBaseState |-> FALSE, baseState |-> EmptyRaw, baseRevision |-> r] :
        st \in SaveRaws, r \in BaseRevisions}

\* the Saves during which the disk write is made to fail: a verbatim save and
\* a stale save that is merged
DiskFailureBodies ==
    {[state |-> toJSON(MkState(GridSettings, <<>>)), hasBaseState |-> FALSE,
      baseState |-> EmptyRaw, baseRevision |-> RevOther],
     [state |-> toJSON(MkState(BaseSettings, (0 :> <<Ev(1, 0, 1)>>))), hasBaseState |-> TRUE,
      baseState |-> toJSON(MkState(BaseSettings, (0 :> <<Ev(1, 0, 0)>>))),
      baseRevision |-> RevInt(0)]}

UnknownBodies ==
    {[state |-> st, hasBaseState |-> FALSE, baseState |-> EmptyRaw, baseRevision |-> RevInt(0)] :
        st \in {EmptyRaw, toJSON(MkState(BaseSettings, (0 :> <<Ev(1, 0, 0)>>)))}}

\* the names sent to Create and Rename: two names, the empty string, a
\* number and no name at all
RegistryNames == {RawStr("Trip"), RawStr("My Calendar"), RawStr(""), RawOther("42"), MissingStr}

\* the Saves sent to the registry: each tab of two adds its own block to the
\* empty schedule it fetched at revision 0, 1, ... or sends no base at all
RegistryBodies ==
    {[state |-> toJSON(MkState(BaseSettings, (0 :> <<Ev(n, 0, n - 1)>>))), hasBaseState |-> TRUE,
      baseState |-> toJSON(MkState(BaseSettings, <<>>)), baseRevision |-> r] :
        n \in 1..2, r \in {RevInt(k) : k \in 0..(MaxRevision - 1)}}
    \cup
    {[state |-> toJSON(MkState(GridSettings, <<>>)), hasBaseState |-> FALSE,
      baseState |-> EmptyRaw, baseRevision |-> RevOther]}

\* the Saves by id of a session that also uses the legacy endpoint: a tab
\* adds block 2 to the empty schedule it fetched at revision 0, and a Save
\* without a base
SessionBodies ==
    {[state |-> toJSON(MkState(BaseSettings, (0 :> <<Ev(2, 0, 1)>>))), hasBaseState |-> TRUE,
      baseState |-> toJSON(MkState(BaseSettings, <<>>)), baseRevision |-> RevInt(0)],
     [state |-> toJSON(MkState(GridSettings, <<>>)), hasBaseState |-> FALSE,
      baseState |-> EmptyRaw, baseRevision |-> RevOther]}

\* the bodies sent to the legacy endpoint: what the old client posts (state,
\* baseState, baseRevision) with a schedule of one block, a bare state, and
\* a body that is no state at all
LegacyBodies ==
    {[hasState |-> TRUE, state |-> toJSON(MkState(BaseSettings, ev)), top |-> EmptyRaw,
      hasBaseState |-> TRUE, baseState |-> toJSON(MkState(BaseSettings, <<>>)),
      baseRevision |-> RevInt(0)] : ev \in {(0 :> <<Ev(1, 0, 0)>>)}}
    \cup
    {[hasState |-> FALSE, state |-> EmptyRaw, top |-> raw,
      hasBaseState |-> FALSE, baseState |-> EmptyRaw, baseRevision |-> RevOther] :
        raw \in {toJSON(MkState(GridSettings, (0 :> <<Ev(2, 0, 1)>>))), EmptyRaw}}

----------------------------------------------------------------------------
(* The browser client (function App) and the messages between it and the   *)
(* server.  Date strings stand for ISO timestamps, which                    *)
(* new Date(s).toISOString() gives back unchanged; a string new Date cannot *)
(* parse is one of UnparsableDates.                                         *)

Clients == {"A", "B"}

ClientNo(c) == IF c = "A" THEN 1 ELSE 2

\* how many user edits a behaviour holds
MaxEdits == 2

\* how many times the server process is restarted
MaxRestarts == 1

\* how many Saves of one tab are under way at a time, where more than one is
MaxInFlight == 2

UnparsableDates == {"", "not-a-date"}

\* new Date().toISOString() when the page's script was loaded
PageLoadDate == "page-load"

DEFAULT_CALENDAR_STATE ==
    [numDays |-> 5, startDate |-> PageLoadDate, startHour |-> 7, endHour |-> 22,
     viewMode |-> "row", events |-> <<>>]

\* parseCalendarResponse over a response body that holds state and revision
parseCalendarResponse(data) ==
    LET source == data.state
    IN  [state |->
            [numDays |-> IF source.numDays > 0 THEN source.numDays
                         ELSE DEFAULT_CALENDAR_STATE.numDays,
             startDate |-> IF source.startDate \notin UnparsableDates THEN source.startDate
                           ELSE DEFAULT_CALENDAR_STATE.startDate,
             startHour |-> source.startHour,
             endHour |-> source.endHour,
             viewMode |-> IF source.viewMode \in {"grid", "day", "row"} THEN source.viewMode
                          ELSE DEFAULT_CALENDAR_STATE.viewMode,
             events |-> source.events],
         revision |-> data.revision]

\* function App before its first effect: the useState and useRef initial values.
\* state gathers numDays, startDate, startHour, endHour, viewMode and events;
\* created counts the blocks this tab has created (each gets a fresh id);
\* deleted is history: the ids of the blocks this tab's user has deleted;
\* stateFrom and baseFrom are history: the calendar id of the response the
\* displayed state, and the refs, were last set from.
NewClient ==
    [isLoaded |-> FALSE, apiOnline |-> FALSE, currentCalendarId |-> "",
     state |-> DEFAULT_CALENDAR_STATE, serverRevision |-> 0,
     baseState |-> DEFAULT_CALENDAR_STATE, saveSeq |-> 0, created |-> 0,
     deleted |-> {}, stateFrom |-> "", baseFrom |-> ""]

\* a Get response: kind and id tell which fetch of the tab it answers, the
\* other fields are the status and the JSON body
GetResponse(kind, id, status, cal) ==
    [kind |-> kind, id |-> id, status |-> status, state |-> cal.state,
     revision |-> cal.revision, name |-> cal.name, updatedAt |-> cal.updatedAt]

\* the fields a response without a calendar body is padded with
NoCalendar ==
    [name |-> "", state |-> DEFAULT_CALENDAR_STATE, revision |-> 0, updatedAt |-> 0]

NoGet == GetResponse("none", "", 0, NoCalendar)

\* mutant of ServeGet: the revision is read before a state change that the
\* state read already shows
ServeGetTorn(id, kind) ==
    IF id \in DOMAIN calendars
    THEN GetResponse(kind, id, 200,
                     [calendars[id] EXCEPT !.revision = IF @ > 0 THEN @ - 1 ELSE 0])
    ELSE GetResponse(kind, id, 404, NoCalendar)

\* GET /api/calendars/:id
ServeGet(id, kind) ==
    IF id \in DOMAIN calendars
    THEN GetResponse(kind, id, 200, calendars[id])
    ELSE GetResponse(kind, id, 404, NoCalendar)

\* the guard of the persist effect
Persists(cl) == cl.isLoaded /\ cl.apiOnline /\ cl.currentCalendarId # ""

\* the Saves of tab c that are under way
InFlight(c) ==
    Cardinality({m \in saveReqs : m.client = c}) + Cardinality({m \in saveResps : m.client = c})

\* the body the persist effect posts
SaveBodyOf(cl) ==
    [state |-> toJSON(cl.state), hasBaseState |-> TRUE, baseState |-> toJSON(cl.baseState),
     baseRevision |-> RevInt(cl.serverRevision)]

\* mutant of stale: every poll response is applied
staleNever(parsed, cl) == FALSE

\* the poll's continuation returns early: parsed.revision <= serverRevisionRef.current
stale(parsed, cl) == parsed.revision <= cl.serverRevision

\* mutant of superseded: the response of every Save is applied
supersededNever(seq, cl) == FALSE

\* the Save's continuation returns early: saveSeq !== saveSeqRef.current
superseded(seq, cl) == seq # cl.saveSeq

\* A render of tab c in which a dependency of the persist effect changed: cl
\* is the tab after the state updates, underWay the number of its Saves under
\* way.  The effect returns early, or bumps saveSeqRef and posts a Save.  A
\* render that posts a Save comes when the tab's previous Save has been
\* answered: the user and the poll timer are slower than a round trip.
Render(c, cl, underWay) ==
    IF Persists(cl)
    THEN /\ underWay = 0
         /\ clients' = [clients EXCEPT ![c] = [cl EXCEPT !.saveSeq = @ + 1]]
         /\ saveReqs' = saveReqs \cup
                {[client |-> c, seq |-> cl.saveSeq + 1, id |-> cl.currentCalendarId,
                  body |-> SaveBodyOf(cl), stateFrom |-> cl.stateFrom,
                  baseFrom |-> cl.baseFrom]}
    ELSE /\ clients' = [clients EXCEPT ![c] = cl]
         /\ saveReqs' = saveReqs

\* The block tab c draws next: a fresh id (tab A numbers its blocks 1, 3, ...,
\* tab B 2, 4, ...) on day 0; A's blocks start at minute 1, B's at minute 0.
NewBlock(c) ==
    Ev(ClientNo(c) + Cardinality(Clients) * clients[c].created, 0, ClientNo(c) % 2)

\* handleBlockCreated
createBlock(events, block) ==
    [d \in DOMAIN events \cup {block.dayIndex} |->
        IF d = block.dayIndex
        THEN (IF d \in DOMAIN events THEN events[d] ELSE <<>>) \o <<block>>
        ELSE events[d]]

\* handleBlockDeleted
deleteBlock(events, block) ==
    [d \in DOMAIN events \cup {block.dayIndex} |->
        IF d = block.dayIndex
        THEN SelectSeq(IF d \in DOMAIN events THEN events[d] ELSE <<>>,
                       LAMBDA b : b.id # block.id)
        ELSE events[d]]

\* the blocks a tab shows
BlocksOf(events) ==
    UNION {{events[d][i] : i \in 1..Len(events[d])} : d \in DOMAIN events}

\* a file that a crash left half written, or empty
TornFile == [torn |-> TRUE]

\* JSON.parse(fs.readFileSync(filePath)) does not throw
Parses(file) == "name" \in DOMAIN file

\* readCalendarFromDisk of a file that exists and parses
readCalendarFromDisk(id) ==
    [name |-> IF disk[id].name = "" THEN "Untitled" ELSE disk[id].name,
     state |-> normalizeState(toJSON(disk[id].state)),
     updatedAt |-> disk[id].updatedAt]

\* mutant of loadAllCalendars: the time of loading is taken as updatedAt
loadAllCalendarsStamped ==
    [id \in {i \in DOMAIN disk : Parses(disk[i])} |->
        [name |-> readCalendarFromDisk(id).name, state |-> readCalendarFromDisk(id).state,
         revision |-> 0, updatedAt |-> now]]

\* the Map after the loop of loadAllCalendars over the calendar files, on an
\* empty Map: a file that does not parse is skipped
loadAllCalendars ==
    [id \in {i \in DOMAIN disk : Parses(disk[i])} |->
        [name |-> readCalendarFromDisk(id).name, state |-> readCalendarFromDisk(id).state,
         revision |-> 0, updatedAt |-> readCalendarFromDisk(id).updatedAt]]

\* the file after a crash of the process during fs.writeFileSync, which
\* truncates the file and then writes: the old file when the crash comes
\* before the truncation, the new one when it comes after the last byte, a
\* torn one in between
writeInterrupted(d, id, data, outcome) ==
    CASE outcome = "old" -> d
      [] outcome = "torn" -> [i \in DOMAIN d \cup {id} |-> IF i = id THEN TornFile ELSE d[i]]
      [] outcome = "new" -> writeCalendarToDisk(d, id, data)

\* no response: the connection is reset.  file: the file that was being written.
CrashResponse(file) == [status |-> 0, file |-> file]

\* what the client's fetch gives when the connection breaks before a response
FetchFailed(m) ==
    [client |-> m.client, seq |-> m.seq, id |-> m.id, status |-> 0,
     state |-> DEFAULT_CALENDAR_STATE, revision |-> 0]

----------------------------------------------------------------------------
(* Specifications *)

vars == <<mCurrent, mBase, mIncoming, mMerged, mPc,
          calendars, disk, now, bootTime, req, resp, pre,
          clients, saveReqs, saveResps, getResps, edits, restarts, returned,
          legacy, up, imports, gone, served>>

startupVars == <<legacy, up, imports, gone>>

\* no legacy file; the server process is running and has deleted nothing
NoStartup ==
    /\ legacy = [exists |-> FALSE, raw |-> EmptyRaw]
    /\ up = TRUE
    /\ imports = <<>>
    /\ gone = {}

MergeIdle ==
    /\ mCurrent = MkState(BaseSettings, <<>>)
    /\ mBase = MkState(BaseSettings, <<>>)
    /\ mIncoming = MkState(BaseSettings, <<>>)
    /\ mMerged = MkState(BaseSettings, <<>>)
    /\ mPc = "idle"

ServerOff ==
    /\ calendars = <<>>
    /\ disk = <<>>
    /\ now = 0
    /\ bootTime = 0
    /\ req = NoRequest
    /\ resp = NoResponse
    /\ pre = [calendars |-> <<>>, disk |-> <<>>]
    /\ returned = <<>>
    /\ served = {}
    /\ NoStartup

\* no browser tab has done anything yet
ClientsInit ==
    /\ clients = [c \in Clients |-> NewClient]
    /\ saveReqs = {}
    /\ saveResps = {}
    /\ getResps = [c \in Clients |-> NoGet]
    /\ edits = 0
    /\ restarts = 0

MergeInit ==
    /\ (ScalarInputs \/ EventInputs \/ OddInputs \/ NoEditInputs)
    /\ mMerged = MkState(BaseSettings, <<>>)
    /\ mPc = "input"
    /\ ServerOff
    /\ ClientsInit

\* one call of mergeState
Merge ==
    /\ mPc = "input"
    /\ mMerged' = mergeState(mCurrent, mBase, mIncoming)
    /\ mPc' = "done"
    /\ LET after == argumentsAfterMerge(mCurrent, mBase, mIncoming)
       IN  /\ mCurrent' = after[1]
           /\ mBase' = after[2]
           /\ mIncoming' = after[3]
    /\ now' = now + 1
    /\ UNCHANGED <<calendars, disk, bootTime, req, resp, pre>>
    /\ UNCHANGED clientVars
    /\ UNCHANGED served
    /\ UNCHANGED returned
    /\ UNCHANGED startupVars

\* a second call with the same three objects, at a later time
MergeAgain ==
    /\ mPc = "done"
    /\ mMerged' = mergeState(mCurrent, mBase, mIncoming)
    /\ mPc' = "again"
    /\ LET after == argumentsAfterMerge(mCurrent, mBase, mIncoming)
       IN  /\ mCurrent' = after[1]
           /\ mBase' = after[2]
           /\ mIncoming' = after[3]
    /\ now' = now + 1
    /\ UNCHANGED <<calendars, disk, bootTime, req, resp, pre>>
    /\ UNCHANGED clientVars
    /\ UNCHANGED served
    /\ UNCHANGED returned
    /\ UNCHANGED startupVars

NextMerge == Merge \/ MergeAgain

SpecMerge == MergeInit /\ [][NextMerge]_vars

\* The server after loadAllCalendars found one calendar file: the calendar is
\* in the Map at revision 0 with the file's name, state and updatedAt.
StoreInit ==
    /\ MergeIdle
    /\ \E st \in {MkState(BaseSettings, <<>>), MkState(BaseSettings, (0 :> <<Ev(1, 0, 0)>>))} :
          /\ calendars = ("c1" :> [name |-> "My Calendar", state |-> st, revision |-> 0,
                                   updatedAt |-> 0])
          /\ disk = ("c1" :> [name |-> "My Calendar", state |-> st, updatedAt |-> 0])
          /\ pre = [calendars |-> calendars, disk |-> disk]
    /\ now = 1
    /\ bootTime = 1
    /\ req = NoRequest
    /\ resp = NoResponse
    /\ ClientsInit
    /\ returned = ("c1" :> <<>>)
    /\ served = {}
    /\ NoStartup

\* a request arrives and its handler runs to the response
SaveCalendar ==
    /\ req.op = "none"
    /\ \E body \in SaveBodies : ServeSave("c1", body, TRUE)
    /\ UNCHANGED mergeVars
    /\ UNCHANGED served
    /\ UNCHANGED returned
    /\ UNCHANGED startupVars
    /\ UNCHANGED clientVars

\* a Save during which fs.writeFileSync throws
SaveDiskFailure ==
    /\ req.op = "none"
    /\ \E body \in DiskFailureBodies : ServeSave("c1", body, FALSE)
    /\ UNCHANGED mergeVars
    /\ UNCHANGED served
    /\ UNCHANGED returned
    /\ UNCHANGED startupVars
    /\ UNCHANGED clientVars

\* a Save addressed to an id that is not in the Map
SaveUnknown ==
    /\ req.op = "none"
    /\ \E id \in CalIds \ DOMAIN calendars, body \in UnknownBodies :
          ServeSave(id, body, TRUE)
    /\ UNCHANGED mergeVars
    /\ UNCHANGED served
    /\ UNCHANGED returned
    /\ UNCHANGED startupVars
    /\ UNCHANGED clientVars

\* the request handled last is sent once more, unchanged
RepeatSave ==
    /\ req.op = "save"
    /\ ServeSave(req.id,
                 [state |-> req.state, hasBaseState |-> req.hasBaseState,
                  baseState |-> req.baseState, baseRevision |-> req.baseRevision],
                 TRUE)
    /\ UNCHANGED mergeVars
    /\ UNCHANGED served
    /\ UNCHANGED returned
    /\ UNCHANGED startupVars
    /\ UNCHANGED clientVars

\* the response has been sent: the history of the request is dropped
EndRequest ==
    /\ req.op # "none"
    /\ req' = NoRequest
    /\ resp' = NoResponse
    /\ pre' = Snapshot
    /\ UNCHANGED <<calendars, disk, now, bootTime>>
    /\ UNCHANGED mergeVars
    /\ UNCHANGED served
    /\ UNCHANGED returned
    /\ UNCHANGED startupVars
    /\ UNCHANGED clientVars

Next == SaveCalendar \/ SaveDiskFailure \/ SaveUnknown \/ RepeatSave \/ EndRequest

Spec == StoreInit /\ [][Next]_vars

\* The registry: every handler of the multi-calendar API on one server
\* process.  Handlers are synchronous functions on the Node event loop, so a
\* request is handled in one step, whatever requests are waiting.
CreateCalendar ==
    /\ req.op = "none"
    /\ now < MaxTime
    /\ CalIds \ DOMAIN returned # {}
    /\ \E name \in RegistryNames, diskOk \in BOOLEAN : ServeCreate(name, diskOk)
    /\ UNCHANGED mergeVars
    /\ UNCHANGED served
    /\ UNCHANGED clientVars
    /\ UNCHANGED startupVars

RenameCalendar ==
    /\ req.op = "none"
    /\ now < MaxTime
    /\ \E id \in CalIds, name \in RegistryNames, diskOk \in BOOLEAN :
          ServeRename(id, name, diskOk)
    /\ UNCHANGED mergeVars
    /\ UNCHANGED served
    /\ UNCHANGED clientVars
    /\ UNCHANGED startupVars

DeleteCalendar ==
    /\ req.op = "none"
    /\ \E id \in CalIds : ServeDelete(id)
    /\ UNCHANGED mergeVars
    /\ UNCHANGED served
    /\ UNCHANGED clientVars
    /\ UNCHANGED <<legacy, up, imports>>

GetCalendar ==
    /\ req.op = "none"
    /\ \E id \in CalIds :
          /\ req' = RegistryRequest("get", id, MissingStr)
          /\ resp' = ServeGet(id, "get")
    /\ pre' = Snapshot
    /\ UNCHANGED <<calendars, disk, now, bootTime, returned>>
    /\ UNCHANGED mergeVars
    /\ UNCHANGED served
    /\ UNCHANGED clientVars
    /\ UNCHANGED startupVars

ListCalendars ==
    /\ req.op = "none"
    /\ \E entries \in Orders(DOMAIN calendars) : ServeList(entries)
    /\ UNCHANGED mergeVars
    /\ UNCHANGED served
    /\ UNCHANGED clientVars
    /\ UNCHANGED startupVars

\* a Save; returned records the revision a state-changing Save answers with
RegistrySave(id, body, diskOk) ==
    /\ now < MaxTime
    /\ ServeSave(id, body, diskOk)
    /\ returned' = IF resp'.status = 200 /\ calendars' # calendars
                   THEN [returned EXCEPT ![id] = Append(@, resp'.revision)]
                   ELSE returned
    /\ UNCHANGED mergeVars
    /\ UNCHANGED served
    /\ UNCHANGED clientVars
    /\ UNCHANGED startupVars

SaveToRegistry ==
    /\ req.op = "none"
    /\ \E id \in CalIds, body \in RegistryBodies, diskOk \in BOOLEAN :
          RegistrySave(id, body, diskOk)

\* a tab that fetched the calendar before it was renamed saves right after
\* the Rename
SaveAfterRename ==
    /\ req.op = "rename"
    /\ \E body \in RegistryBodies : RegistrySave(req.id, body, TRUE)

NextRegistry ==
    \/ CreateCalendar
    \/ RenameCalendar
    \/ DeleteCalendar
    \/ GetCalendar
    \/ ListCalendars
    \/ SaveToRegistry
    \/ SaveAfterRename
    \/ EndRequest

SpecRegistry == StoreInit /\ [][NextRegistry]_vars

\* the response a client is sent for a calendar, as the history keeps it
Served(op, id, response) ==
    [op |-> op, id |-> id, revision |-> response.revision, state |-> response.state]

\* the history after a response: the first response kept stays, and while
\* none is kept this one is kept or not
Keep(entry) == served' \in (IF served = {} THEN {{}, {entry}} ELSE {served})

\* One server session with the legacy endpoints in use: the process found no
\* calendar file, or loaded two.  served keeps one of the responses that carry
\* a calendar's state and revision; every later response is compared with it.
LegacyInit ==
    /\ MergeIdle
    /\ \E ids \in {{}, CalIds} :
          /\ calendars =
                [id \in ids |->
                    [name |-> "My Calendar",
                     state |-> MkState(BaseSettings,
                                       IF id = "c1" THEN <<>> ELSE (0 :> <<Ev(1, 0, 0)>>)),
                     revision |-> 0, updatedAt |-> 0]]
          /\ disk = [id \in ids |-> FileOf(calendars[id])]
          /\ returned = [id \in ids |-> <<>>]
    /\ pre = [calendars |-> calendars, disk |-> disk]
    /\ now = 1
    /\ bootTime = 1
    /\ req = NoRequest
    /\ resp = NoResponse
    /\ ClientsInit
    /\ served = {}
    /\ NoStartup

SessionGet ==
    /\ req.op = "none"
    /\ \E id \in CalIds :
          /\ req' = RegistryRequest("get", id, MissingStr)
          /\ resp' = ServeGet(id, "get")
          /\ IF id \in DOMAIN calendars
             THEN Keep(Served("get", id, calendars[id]))
             ELSE UNCHANGED served
    /\ pre' = Snapshot
    /\ UNCHANGED <<calendars, disk, now, bootTime, returned>>
    /\ UNCHANGED mergeVars
    /\ UNCHANGED clientVars
    /\ UNCHANGED startupVars

SessionSave ==
    /\ req.op = "none"
    /\ now < MaxTime
    /\ \E id \in CalIds, body \in SessionBodies :
          /\ ServeSave(id, body, TRUE)
          /\ IF resp'.status = 200
             THEN Keep(Served("save", id, resp'))
             ELSE UNCHANGED served
          /\ returned' = IF resp'.status = 200 /\ calendars' # calendars
                         THEN [returned EXCEPT ![id] = Append(@, resp'.revision)]
                         ELSE returned
    /\ UNCHANGED mergeVars
    /\ UNCHANGED clientVars
    /\ UNCHANGED startupVars

SessionRename ==
    /\ req.op = "none"
    /\ now < MaxTime
    /\ \E id \in CalIds : ServeRename(id, RawStr("Trip"), TRUE)
    /\ UNCHANGED served
    /\ UNCHANGED mergeVars
    /\ UNCHANGED clientVars
    /\ UNCHANGED startupVars

LegacyGet ==
    /\ req.op = "none"
    /\ \E entries \in Orders(DOMAIN calendars) :
          /\ ServeLegacyGet(entries)
          /\ IF entries # <<>>
             THEN Keep(Served("legacyGet", MostRecent(entries), resp'))
             ELSE UNCHANGED served
    /\ UNCHANGED mergeVars
    /\ UNCHANGED clientVars
    /\ UNCHANGED startupVars

LegacySave ==
    /\ req.op = "none"
    /\ now < MaxTime
    /\ \E entries \in Orders(DOMAIN calendars), body \in LegacyBodies, diskOk \in BOOLEAN :
          /\ ServeLegacySave(entries, body, diskOk)
          /\ IF resp'.status = 200
             THEN Keep(Served("legacySave", MostRecent(entries), resp'))
             ELSE UNCHANGED served
    /\ UNCHANGED mergeVars
    /\ UNCHANGED clientVars
    /\ UNCHANGED startupVars

NextLegacy ==
    \/ SessionGet
    \/ SessionSave
    \/ SessionRename
    \/ LegacyGet
    \/ LegacySave
    \/ EndRequest

SpecLegacy == LegacyInit /\ [][NextLegacy]_vars

\* Starts and stops of the server process.  The calendars directory holds
\* no file or the file of c1; the legacy file exists or not.  Between start
\* and stop the process handles Create, Rename, Save, Delete and Get, and it
\* may crash inside the disk write of a Save or a Rename.
LegacyRaw ==
    [EmptyRaw EXCEPT !.startDate = RawStr("2026-02-01"),
                     !.events = RawObject((0 :> <<Ev(2, 0, 1)>>)),
                     !.settings = [numDays |-> RawNum(7), startHour |-> RawNum(8),
                                   endHour |-> RawNum(23), viewMode |-> RawStr("grid")]]

StartupInit ==
    /\ MergeIdle
    /\ ClientsInit
    /\ calendars = <<>>
    /\ disk \in {<<>>,
                 ("c1" :> [name |-> "My Calendar", state |-> MkState(BaseSettings, <<>>),
                           updatedAt |-> 0])}
    /\ legacy \in {[exists |-> FALSE, raw |-> EmptyRaw], [exists |-> TRUE, raw |-> LegacyRaw]}
    /\ now = 1
    /\ bootTime = 0
    /\ req = NoRequest
    /\ resp = NoResponse
    /\ pre = [calendars |-> calendars, disk |-> disk]
    /\ returned = [id \in DOMAIN disk |-> <<>>]
    /\ served = {}
    /\ up = FALSE
    /\ imports = <<>>
    /\ gone = {}

\* The script's top level: DEFAULT_STATE is built, then loadAllCalendars
\* imports the legacy file when the directory holds no calendar file and
\* reads every calendar file.  diskOk: whether the write of the import
\* succeeds.  The history of the last request of the old process is kept.
StartServer ==
    /\ ~ up
    /\ up' = TRUE
    /\ bootTime' = now
    /\ now' = now + 1
    /\ UNCHANGED <<legacy, gone, req, resp, pre>>
    /\ IF DOMAIN disk = {} /\ legacy.exists
       THEN /\ CalIds \ DOMAIN returned # {}
            /\ \E diskOk \in BOOLEAN :
                  LET id == generateId
                      calData == [name |-> "My Calendar",
                                  state |-> (normalizeState(legacy.raw))',
                                  updatedAt |-> now]
                  IN  IF diskOk
                      THEN /\ disk' = writeCalendarToDisk(disk, id, calData)
                           /\ calendars' = (id :> [name |-> calData.name, state |-> calData.state,
                                                   revision |-> 0, updatedAt |-> calData.updatedAt])
                           /\ imports' = Append(imports, id)
                           /\ returned' = [i \in DOMAIN returned \cup {id} |-> <<>>]
                      ELSE /\ disk' = disk
                           /\ calendars' = <<>>
                           /\ imports' = imports
                           /\ returned' = [i \in DOMAIN returned |-> <<>>]
       ELSE /\ disk' = disk
            /\ calendars' = loadAllCalendars'
            /\ imports' = imports
            /\ returned' = [i \in DOMAIN returned |-> <<>>]
    /\ UNCHANGED restarts
    /\ UNCHANGED <<clients, saveReqs, saveResps, getResps, edits>>
    /\ UNCHANGED mergeVars
    /\ served' = {}

\* the process is stopped between two requests
StopServer ==
    /\ up
    /\ req.op = "none"
    /\ restarts < MaxRestarts
    /\ restarts' = restarts + 1
    /\ up' = FALSE
    /\ calendars' = <<>>
    /\ UNCHANGED <<disk, now, bootTime, req, resp, pre, returned, legacy, imports, gone>>
    /\ UNCHANGED <<clients, saveReqs, saveResps, getResps, edits>>
    /\ UNCHANGED mergeVars
    /\ UNCHANGED served

\* the Saves sent to a server that is stopped and started: a block on the
\* base settings, the empty grid, and a state with values of the wrong types
StartupBodies ==
    {[state |-> st, hasBaseState |-> FALSE, baseState |-> EmptyRaw, baseRevision |-> RevOther] :
        st \in {toJSON(MkState(BaseSettings, (0 :> <<Ev(1, 0, 0)>>))),
                toJSON(MkState(GridSettings, <<>>)),
                [EmptyRaw EXCEPT !.numDays = RawNum(0), !.startDate = RawOther("0"),
                                 !.startHour = RawCoercible(8), !.endHour = RawNaN,
                                 !.viewMode = RawStr("bogus"),
                                 !.events = RawObject((1 :> <<Ev(1, 0, 0)>>))]}}

\* the process dies inside writeCalendarToDisk, called by Save or by Rename
\* for the record written
CrashInWrite(request, id, written) ==
    /\ restarts < MaxRestarts
    /\ restarts' = restarts + 1
    /\ now < MaxTime
    /\ now' = now + 1
    /\ \E outcome \in {"old", "torn", "new"} :
          disk' = writeInterrupted(disk, id, written, outcome)
    /\ req' = request
    /\ resp' = CrashResponse(FileOf(written))
    /\ pre' = Snapshot
    /\ up' = FALSE
    /\ calendars' = <<>>
    /\ UNCHANGED <<bootTime, returned, legacy, imports, gone>>
    /\ UNCHANGED <<clients, saveReqs, saveResps, getResps, edits>>
    /\ UNCHANGED mergeVars
    /\ UNCHANGED served

CrashInSave ==
    /\ up
    /\ req.op = "none"
    /\ \E id \in DOMAIN calendars, body \in StartupBodies :
          LET cal == calendars[id]
              nextState == saveNextState(cal, body)
          IN  /\ ~ saveIsNoop(nextState, cal)
              /\ cal.revision < MaxRevision
              /\ CrashInWrite(SaveRequest(id, body), id, saveApply(cal, nextState, now))

CrashInRename ==
    /\ up
    /\ req.op = "none"
    /\ \E id \in DOMAIN calendars :
          CrashInWrite(RegistryRequest("rename", id, RawStr("Trip")), id,
                       renameApply(calendars[id], "Trip", now))

StartupCreate ==
    /\ up
    /\ req.op = "none"
    /\ now < MaxTime
    /\ CalIds \ DOMAIN returned # {}
    /\ ServeCreate(RawStr("Trip"), TRUE)
    /\ UNCHANGED <<restarts, legacy, up, imports, gone>>
    /\ UNCHANGED <<clients, saveReqs, saveResps, getResps, edits>>
    /\ UNCHANGED mergeVars
    /\ UNCHANGED served

StartupRename ==
    /\ up
    /\ req.op = "none"
    /\ now < MaxTime
    /\ \E id \in CalIds : ServeRename(id, RawStr("Trip"), TRUE)
    /\ UNCHANGED <<restarts, legacy, up, imports, gone>>
    /\ UNCHANGED <<clients, saveReqs, saveResps, getResps, edits>>
    /\ UNCHANGED mergeVars
    /\ UNCHANGED served

StartupSave ==
    /\ up
    /\ req.op = "none"
    /\ \E id \in CalIds, body \in StartupBodies, diskOk \in BOOLEAN :
          RegistrySave(id, body, diskOk)

StartupDelete ==
    /\ up
    /\ req.op = "none"
    /\ \E id \in CalIds : ServeDelete(id)
    /\ UNCHANGED <<restarts, legacy, up, imports>>
    /\ UNCHANGED <<clients, saveReqs, saveResps, getResps, edits>>
    /\ UNCHANGED mergeVars
    /\ UNCHANGED served

StartupGet ==
    /\ up
    /\ GetCalendar

NextStartup ==
    \/ StartServer
    \/ StopServer
    \/ CrashInSave
    \/ CrashInRename
    \/ StartupCreate
    \/ StartupRename
    \/ StartupSave
    \/ StartupDelete
    \/ StartupGet
    \/ EndRequest

SpecStartup == StartupInit /\ [][NextStartup]_vars

\* The server after loadAllCalendars found one calendar file, and two browser
\* tabs that have just been opened.
ClientsStoreInit ==
    /\ MergeIdle
    /\ calendars = ("c1" :> [name |-> "My Calendar", state |-> MkState(BaseSettings, <<>>),
                             revision |-> 0, updatedAt |-> 0])
    /\ disk = ("c1" :> [name |-> "My Calendar", state |-> MkState(BaseSettings, <<>>),
                        updatedAt |-> 0])
    /\ pre = [calendars |-> calendars, disk |-> disk]
    /\ now = 1
    /\ bootTime = 1
    /\ req = NoRequest
    /\ resp = NoResponse
    /\ ClientsInit
    /\ returned = ("c1" :> <<>>)
    /\ served = {}
    /\ NoStartup

\* a step of a browser tab leaves the server alone; the history of the request
\* handled last is dropped, so req, resp and pre describe a request only in the
\* state its handler produced
ForgetRequest ==
    /\ req' = NoRequest
    /\ resp' = NoResponse
    /\ pre' = Snapshot
    /\ UNCHANGED <<calendars, disk, now, bootTime>>

\* mount: the list is fetched and loadCalendar fetches the most recent calendar
LoadCalendar(c) ==
    /\ ~ clients[c].isLoaded
    /\ getResps[c].kind = "none"
    /\ getResps' = [getResps EXCEPT ![c] = ServeGet("c1", "load")]
    /\ UNCHANGED <<clients, saveReqs, saveResps, edits, restarts>>
    /\ ForgetRequest
    /\ UNCHANGED mergeVars
    /\ UNCHANGED served
    /\ UNCHANGED returned
    /\ UNCHANGED startupVars

\* loadCalendar's continuation, then setIsLoaded(true)
LoadDone(c) ==
    /\ getResps[c].kind = "load"
    /\ getResps' = [getResps EXCEPT ![c] = NoGet]
    /\ IF getResps[c].status = 200
       THEN LET parsed == parseCalendarResponse(getResps[c])
            IN  Render(c, [clients[c] EXCEPT !.serverRevision = parsed.revision,
                                             !.baseState = parsed.state,
                                             !.state = parsed.state,
                                             !.currentCalendarId = "c1",
                                             !.stateFrom = getResps[c].id,
                                             !.baseFrom = getResps[c].id,
                                             !.apiOnline = TRUE,
                                             !.isLoaded = TRUE],
                       InFlight(c))
       ELSE Render(c, [clients[c] EXCEPT !.apiOnline = FALSE, !.isLoaded = TRUE], InFlight(c))
    /\ UNCHANGED <<saveResps, edits, restarts>>
    /\ ForgetRequest
    /\ UNCHANGED mergeVars
    /\ UNCHANGED served
    /\ UNCHANGED returned
    /\ UNCHANGED startupVars

\* the poll interval fires and the server answers the Get
Poll(c) ==
    /\ clients[c].isLoaded
    /\ clients[c].currentCalendarId # ""
    /\ getResps[c].kind = "none"
    /\ getResps' = [getResps EXCEPT ![c] = ServeGet(clients[c].currentCalendarId, "poll")]
    /\ UNCHANGED <<clients, saveReqs, saveResps, edits, restarts>>
    /\ ForgetRequest
    /\ UNCHANGED mergeVars
    /\ UNCHANGED served
    /\ UNCHANGED returned
    /\ UNCHANGED startupVars

\* the poll's continuation; underWay: what the render is given as the number
\* of the tab's Saves under way
PollDoneWith(c, underWay) ==
    /\ getResps[c].kind = "poll"
    /\ getResps' = [getResps EXCEPT ![c] = NoGet]
    /\ IF getResps[c].status # 200
       THEN /\ clients' = [clients EXCEPT ![c].apiOnline = FALSE]
            /\ saveReqs' = saveReqs
       ELSE LET parsed == parseCalendarResponse(getResps[c])
                online == [clients[c] EXCEPT !.apiOnline = TRUE]
            IN  IF stale(parsed, clients[c])
                THEN IF clients[c].apiOnline
                     THEN /\ clients' = clients
                          /\ saveReqs' = saveReqs
                     ELSE Render(c, online, underWay)
                ELSE Render(c, [online EXCEPT !.serverRevision = parsed.revision,
                                              !.baseState = parsed.state,
                                              !.state = parsed.state,
                                              !.stateFrom = getResps[c].id,
                                              !.baseFrom = getResps[c].id],
                            underWay)
    /\ UNCHANGED <<saveResps, edits, restarts>>
    /\ ForgetRequest
    /\ UNCHANGED mergeVars
    /\ UNCHANGED served
    /\ UNCHANGED returned
    /\ UNCHANGED startupVars

PollDone(c) == PollDoneWith(c, InFlight(c))

\* the user draws a block: handleBlockCreated, then the persist effect
CreateBlockWith(c, underWay) ==
    /\ clients[c].isLoaded
    /\ clients[c].currentCalendarId # ""
    /\ edits < MaxEdits
    /\ edits' = edits + 1
    /\ LET block == NewBlock(c)
       IN  Render(c, [clients[c] EXCEPT !.state.events = createBlock(@, block),
                                        !.created = @ + 1],
                  underWay)
    /\ UNCHANGED <<saveResps, getResps, restarts>>
    /\ ForgetRequest
    /\ UNCHANGED mergeVars
    /\ UNCHANGED served
    /\ UNCHANGED returned
    /\ UNCHANGED startupVars

CreateBlock(c) == CreateBlockWith(c, InFlight(c))

\* the user deletes a block: handleBlockDeleted, then the persist effect
DeleteBlock(c) ==
    /\ clients[c].isLoaded
    /\ clients[c].currentCalendarId # ""
    /\ edits < MaxEdits
    /\ edits' = edits + 1
    /\ \E block \in BlocksOf(clients[c].state.events) :
          Render(c, [clients[c] EXCEPT !.state.events = deleteBlock(@, block),
                                       !.deleted = @ \cup {block.id}],
                 InFlight(c))
    /\ UNCHANGED <<saveResps, getResps, restarts>>
    /\ ForgetRequest
    /\ UNCHANGED mergeVars
    /\ UNCHANGED served
    /\ UNCHANGED returned
    /\ UNCHANGED startupVars

\* the server handles a Save that was on its way and sends the response
HandleSave ==
    /\ \E m \in saveReqs :
          /\ ServeSave(m.id, m.body, TRUE)
          /\ saveReqs' = saveReqs \ {m}
          /\ saveResps' = saveResps \cup
                {[client |-> m.client, seq |-> m.seq, id |-> m.id, status |-> resp'.status,
                  state |-> resp'.state, revision |-> resp'.revision]}
    /\ UNCHANGED <<clients, getResps, edits, restarts>>
    /\ UNCHANGED mergeVars
    /\ UNCHANGED served
    /\ UNCHANGED returned
    /\ UNCHANGED startupVars

\* the continuation of a Save's fetch
SaveDone(c) ==
    /\ \E m \in saveResps :
          /\ m.client = c
          /\ saveResps' = saveResps \ {m}
          /\ IF m.status # 200
             THEN /\ clients' = [clients EXCEPT ![c].apiOnline = FALSE]
                  /\ saveReqs' = saveReqs
             ELSE IF superseded(m.seq, clients[c])
             THEN /\ clients' = clients
                  /\ saveReqs' = saveReqs
             ELSE LET parsed == parseCalendarResponse(m)
                      updated == [clients[c] EXCEPT !.apiOnline = TRUE,
                                                    !.serverRevision = parsed.revision,
                                                    !.baseState = parsed.state,
                                                    !.baseFrom = m.id]
                  IN  IF clients[c].apiOnline
                      THEN /\ clients' = [clients EXCEPT ![c] = updated]
                           /\ saveReqs' = saveReqs
                      ELSE Render(c, updated, InFlight(c) - 1)
    /\ UNCHANGED <<getResps, edits, restarts>>
    /\ ForgetRequest
    /\ UNCHANGED mergeVars
    /\ UNCHANGED served
    /\ UNCHANGED returned
    /\ UNCHANGED startupVars

\* The server process is stopped and started again: the script's top level
\* runs, DEFAULT_STATE is rebuilt and loadAllCalendars fills the empty Map
\* from the calendars directory.  The fetches the old process had not answered
\* fail.
Restart ==
    /\ restarts < MaxRestarts
    /\ restarts' = restarts + 1
    /\ bootTime' = now
    /\ now' = now + 1
    /\ disk' = disk
    /\ calendars' = loadAllCalendars'
    /\ saveReqs' = {}
    /\ saveResps' = saveResps \cup {FetchFailed(m) : m \in saveReqs}
    /\ req' = NoRequest
    /\ resp' = NoResponse
    /\ pre' = [calendars |-> calendars', disk |-> disk']
    /\ UNCHANGED <<clients, getResps, edits>>
    /\ UNCHANGED mergeVars
    /\ served' = {}
    /\ UNCHANGED returned
    /\ UNCHANGED startupVars

\* the steps of the browser tabs and of one server process
NextSession ==
    \/ \E c \in Clients : LoadCalendar(c)
    \/ \E c \in Clients : LoadDone(c)
    \/ \E c \in Clients : Poll(c)
    \/ \E c \in Clients : PollDone(c)
    \/ \E c \in Clients : CreateBlock(c)
    \/ \E c \in Clients : DeleteBlock(c)
    \/ HandleSave
    \/ \E c \in Clients : SaveDone(c)

\* browser tabs and a server process that is never restarted
SpecSession == ClientsStoreInit /\ [][NextSession]_vars

\* What keeps running whether or not the users edit: the mount effect and the
\* poll timer of every tab fire, and the continuation of every fetch runs once
\* its response is there.  (No condition is put on the server: the property
\* checked under this specification speaks of the states in which no Save is
\* under way, and a Save the server never answers leaves no such state.)
SessionFairness ==
    \A c \in Clients :
        /\ WF_vars(LoadCalendar(c))
        /\ WF_vars(LoadDone(c))
        /\ WF_vars(Poll(c))
        /\ WF_vars(PollDone(c))
        /\ WF_vars(SaveDone(c))

\* one server process and browser tabs that keep polling
SpecSessionFair == SpecSession /\ SessionFairness

\* the tab whose user and poll timer do not wait for the answer to a Save
Hasty == "A"

\* what a render is given: 0 while the hasty tab may post another Save
Excess(c) == IF InFlight(c) < MaxInFlight THEN 0 ELSE InFlight(c)

\* the Save of another client: it adds block 2 to the empty schedule it
\* fetched at revision 0
OtherBodies ==
    {[state |-> toJSON(MkState(BaseSettings, (0 :> <<Ev(2, 0, 0)>>))), hasBaseState |-> TRUE,
      baseState |-> toJSON(MkState(BaseSettings, <<>>)), baseRevision |-> RevInt(0)]}

\* the server handles a Save of another client
OtherSave ==
    /\ \E body \in OtherBodies : ServeSave("c1", body, TRUE)
    /\ UNCHANGED clientVars
    /\ UNCHANGED mergeVars
    /\ UNCHANGED served
    /\ UNCHANGED returned
    /\ UNCHANGED startupVars

\* Several Saves of the hasty tab are under way, and the server and the
\* network take them in any order, with the Saves of another client in
\* between.
NextInFlight ==
    \/ LoadCalendar(Hasty)
    \/ LoadDone(Hasty)
    \/ Poll(Hasty)
    \/ PollDoneWith(Hasty, Excess(Hasty))
    \/ CreateBlockWith(Hasty, Excess(Hasty))
    \/ HandleSave
    \/ OtherSave
    \/ SaveDone(Hasty)

SpecInFlight == ClientsStoreInit /\ [][NextInFlight]_vars

\* The server after loadAllCalendars found two calendar files, and browser
\* tabs that have just been opened.
SwitchInit ==
    /\ LegacyInit
    /\ DOMAIN calendars = CalIds

\* handleSelectCalendar: the user picks another calendar in the calendar
\* manager and loadCalendar fetches it; the server answers the Get at once
\* and the continuation sets the refs, the displayed state and the current
\* calendar id.  A poll or a Save that is under way stays under way.
SwitchCalendar(c, underWay) ==
    /\ clients[c].isLoaded
    /\ edits < MaxEdits
    /\ edits' = edits + 1
    /\ \E id \in DOMAIN calendars \ {clients[c].currentCalendarId} :
          LET parsed == parseCalendarResponse(ServeGet(id, "load"))
          IN  Render(c, [clients[c] EXCEPT !.serverRevision = parsed.revision,
                                           !.baseState = parsed.state,
                                           !.state = parsed.state,
                                           !.currentCalendarId = id,
                                           !.stateFrom = id,
                                           !.baseFrom = id,
                                           !.apiOnline = TRUE],
                     underWay)
    /\ UNCHANGED <<saveResps, getResps, restarts>>
    /\ ForgetRequest
    /\ UNCHANGED mergeVars
    /\ UNCHANGED served
    /\ UNCHANGED returned
    /\ UNCHANGED startupVars

\* One tab whose user switches between two calendars while polls and Saves
\* are under way.
NextSwitch ==
    \/ LoadCalendar(Hasty)
    \/ LoadDone(Hasty)
    \/ SwitchCalendar(Hasty, Excess(Hasty))
    \/ Poll(Hasty)
    \/ PollDoneWith(Hasty, Excess(Hasty))
    \/ CreateBlockWith(Hasty, Excess(Hasty))
    \/ HandleSave
    \/ SaveDone(Hasty)

SpecSwitch == SwitchInit /\ [][NextSwitch]_vars

NextClients == NextSession \/ Restart

\* browser tabs and a server process that may be restarted
SpecClients == ClientsStoreInit /\ [][NextClients]_vars

----------------------------------------------------------------------------
(* Properties of the merge engine (checked under SpecMerge) *)

\* the events of a state, whatever bucket holds them
AllEvents(st) ==
    {st.events[d][i] : <<d, i>> \in
        UNION {{<<d, i>> : i \in 1..Len(st.events[d])} : d \in DOMAIN st.events}}

\* the versions a state holds of the event with this id
VersionsOf(st, id) == {e \in AllEvents(st) : e.id = id}

\* how many times the id occurs in the state
Occurrences(st, id) ==
    Cardinality(UNION {{<<d, i>> : i \in {j \in 1..Len(st.events[d]) : st.events[d][j].id = id}} :
                        d \in DOMAIN st.events})

\* C4 (scalar merge rule): after mergeState, each of numDays, startDate,
\* startHour, endHour, viewMode equals incoming's value when incoming differs
\* from base for that field, and current's value otherwise.
C4_ScalarMergeRule ==
    mPc = "done" =>
        /\ mMerged.numDays =
              IF mIncoming.numDays # mBase.numDays THEN mIncoming.numDays ELSE mCurrent.numDays
        /\ mMerged.startDate =
              IF mIncoming.startDate # mBase.startDate THEN mIncoming.startDate ELSE mCurrent.startDate
        /\ mMerged.startHour =
              IF mIncoming.startHour # mBase.startHour THEN mIncoming.startHour ELSE mCurrent.startHour
        /\ mMerged.endHour =
              IF mIncoming.endHour # mBase.endHour THEN mIncoming.endHour ELSE mCurrent.endHour
        /\ mMerged.viewMode =
              IF mIncoming.viewMode # mBase.viewMode THEN mIncoming.viewMode ELSE mCurrent.viewMode

\* C4 witness: a merge where the client left viewMode alone while another
\* client changed it (current's value survives) and the client changed numDays
\* against a different concurrent value (incoming's value wins).
C4_Witness ==
    /\ mPc = "done"
    /\ mIncoming.viewMode = mBase.viewMode
    /\ mCurrent.viewMode # mBase.viewMode
    /\ mMerged.viewMode = mCurrent.viewMode
    /\ mIncoming.numDays # mBase.numDays
    /\ mCurrent.numDays # mIncoming.numDays
    /\ mMerged.numDays = mIncoming.numDays

\* C5 (per-event last-writer-wins): for every event of incoming that base does
\* not hold in the same version (changed or created by the client), the merged
\* state holds that id exactly once, in incoming's version.
C5_EventLastWriterWins ==
    mPc = "done" =>
        \A e \in AllEvents(mIncoming) :
            e \notin AllEvents(mBase) =>
                /\ VersionsOf(mMerged, e.id) = {e}
                /\ Occurrences(mMerged, e.id) = 1

\* C5 witness: incoming edits an event that current has concurrently edited to
\* a third version; the merged state holds incoming's version.
C5_Witness ==
    /\ mPc = "done"
    /\ \E e \in AllEvents(mIncoming) :
          /\ VersionsOf(mBase, e.id) # {}
          /\ e \notin AllEvents(mBase)
          /\ VersionsOf(mCurrent, e.id) # {}
          /\ VersionsOf(mCurrent, e.id) \cap (VersionsOf(mBase, e.id) \cup {e}) = {}
          /\ VersionsOf(mMerged, e.id) = {e}

\* C6 (delete wins): every event id that base holds and incoming does not is
\* absent from the merged state, whatever current holds for it.
C6_DeleteWins ==
    mPc = "done" =>
        \A b \in AllEvents(mBase) :
            VersionsOf(mIncoming, b.id) = {} => VersionsOf(mMerged, b.id) = {}

\* C6 witness: the client deleted an event that current had concurrently
\* edited, and the merged state does not hold it.
C6_Witness ==
    /\ mPc = "done"
    /\ \E b \in AllEvents(mBase) :
          /\ VersionsOf(mIncoming, b.id) = {}
          /\ VersionsOf(mCurrent, b.id) # {}
          /\ b \notin AllEvents(mCurrent)
          /\ VersionsOf(mMerged, b.id) = {}

\* C7 (concurrent-addition preservation): every event of current whose id is
\* in neither base nor incoming is in the merged state, exactly once, with
\* current's field values.
C7_ConcurrentAdditionPreserved ==
    mPc = "done" =>
        \A c \in AllEvents(mCurrent) :
            (VersionsOf(mBase, c.id) = {} /\ VersionsOf(mIncoming, c.id) = {}) =>
                /\ VersionsOf(mMerged, c.id) = {c}
                /\ Occurrences(mMerged, c.id) = 1

\* C7 witness: current holds an event unknown to base and incoming while the
\* client edited another event; both are in the merged state.
C7_Witness ==
    /\ mPc = "done"
    /\ \E c \in AllEvents(mCurrent), e \in AllEvents(mIncoming) :
          /\ VersionsOf(mBase, c.id) = {}
          /\ VersionsOf(mIncoming, c.id) = {}
          /\ VersionsOf(mBase, e.id) # {}
          /\ e \notin AllEvents(mBase)
          /\ c \in AllEvents(mMerged)
          /\ e \in AllEvents(mMerged)

\* every event of the state lies in the bucket of its own dayIndex
BucketsMatch(st) ==
    \A d \in DOMAIN st.events :
        \A i \in 1..Len(st.events[d]) : st.events[d][i].dayIndex = d

\* no event id occurs twice in the state
IdsUnique(st) == \A e \in AllEvents(st) : Occurrences(st, e.id) = 1

\* C15 (day-bucket consistency of merge results): in the state mergeState
\* returns, every event lies in the bucket whose key is its own dayIndex and
\* every event id occurs exactly once.
C15_DayBucketConsistency ==
    mPc = "done" => BucketsMatch(mMerged) /\ IdsUnique(mMerged)

\* C15 witness: current held an event under a key that is not its dayIndex and
\* incoming moved another event to another day; the merged state holds both,
\* each once and each under its own dayIndex.
C15_Witness ==
    /\ mPc = "done"
    /\ ~ BucketsMatch(mCurrent)
    /\ \E c \in AllEvents(mCurrent), e \in AllEvents(mIncoming) :
          /\ c.id # e.id
          /\ \E d \in DOMAIN mCurrent.events :
                d # c.dayIndex /\ \E i \in 1..Len(mCurrent.events[d]) : mCurrent.events[d][i] = c
          /\ \E b \in VersionsOf(mBase, e.id) : b.dayIndex # e.dayIndex
          /\ c \in AllEvents(mMerged)
          /\ e \in AllEvents(mMerged)
    /\ BucketsMatch(mMerged)
    /\ IdsUnique(mMerged)

\* the events of the sequence are in non-decreasing order of startMinutes
SortedByStart(bucket) ==
    \A i, j \in 1..Len(bucket) : i < j => bucket[i].startMinutes <= bucket[j].startMinutes

\* C28 (merge results are sorted): in the state mergeState returns, the events
\* of every day bucket are in non-decreasing order of startMinutes and no
\* bucket is empty.
C28_MergeResultSorted ==
    mPc = "done" =>
        \A d \in DOMAIN mMerged.events :
            /\ mMerged.events[d] # <<>>
            /\ SortedByStart(mMerged.events[d])

\* C28 witness: current held a bucket whose events were in decreasing order
\* and an empty bucket came in; the merged state holds a bucket of two events
\* that start at different times.
C28_Witness ==
    /\ mPc = "done"
    /\ \E d \in DOMAIN mCurrent.events : ~ SortedByStart(mCurrent.events[d])
    /\ \E d \in DOMAIN mIncoming.events : mIncoming.events[d] = <<>>
    /\ \E d \in DOMAIN mMerged.events :
          /\ Len(mMerged.events[d]) = 2
          /\ mMerged.events[d][1].startMinutes < mMerged.events[d][2].startMinutes

\* the form groupByDay leaves a state in: every event in the bucket of its own
\* dayIndex, no id twice, no empty bucket, every bucket in non-decreasing
\* order of startMinutes
Canonical(st) ==
    /\ BucketsMatch(st)
    /\ IdsUnique(st)
    /\ \A d \in DOMAIN st.events : st.events[d] # <<>> /\ SortedByStart(st.events[d])

\* C32 (a client with no changes never alters the store): when current is in
\* canonical form and incoming is deep-equal to base, whatever base is, the
\* state mergeState returns is deep-equal to current, which is the condition
\* under which the Save handler answers without a new revision.
C32_NoEditNoChange ==
    (mPc = "done" /\ Canonical(mCurrent) /\ deepEqual(mIncoming, mBase))
        => /\ deepEqual(mMerged, mCurrent)
           /\ saveIsNoop(mMerged, [state |-> mCurrent, revision |-> 1])

\* C32 witness: the merge ran with incoming equal to a base that differs from
\* current in its settings and in its events, and current holds a bucket of
\* two events that start at the same minute.
C32_Witness ==
    /\ mPc = "done"
    /\ Canonical(mCurrent)
    /\ deepEqual(mIncoming, mBase)
    /\ mBase.viewMode # mCurrent.viewMode
    /\ AllEvents(mBase) # {}
    /\ AllEvents(mBase) # AllEvents(mCurrent)
    /\ \E d \in DOMAIN mCurrent.events :
          /\ Len(mCurrent.events[d]) = 2
          /\ mCurrent.events[d][1].startMinutes = mCurrent.events[d][2].startMinutes
    /\ deepEqual(mMerged, mCurrent)

\* C31 (no resurrection and no rollback by an untouched event): for every
\* event id that incoming holds in the version base holds, the merged state
\* holds what current holds for the id: nothing when current holds nothing,
\* current's version otherwise.
C31_UntouchedEventFollowsCurrent ==
    mPc = "done" =>
        \A id \in EventIds :
            (VersionsOf(mBase, id) # {} /\ VersionsOf(mIncoming, id) = VersionsOf(mBase, id))
                => VersionsOf(mMerged, id) = VersionsOf(mCurrent, id)

\* C31 witness: incoming holds both events as base holds them; current holds
\* another version of one and has dropped the other; so does the merged state.
C31_Witness ==
    /\ mPc = "done"
    /\ \E id1, id2 \in EventIds :
          /\ id1 # id2
          /\ VersionsOf(mBase, id1) # {}
          /\ VersionsOf(mBase, id2) # {}
          /\ VersionsOf(mIncoming, id1) = VersionsOf(mBase, id1)
          /\ VersionsOf(mIncoming, id2) = VersionsOf(mBase, id2)
          /\ VersionsOf(mCurrent, id1) # {}
          /\ VersionsOf(mCurrent, id1) # VersionsOf(mBase, id1)
          /\ VersionsOf(mCurrent, id2) = {}
          /\ VersionsOf(mMerged, id1) = VersionsOf(mCurrent, id1)
          /\ VersionsOf(mMerged, id2) = {}

----------------------------------------------------------------------------
(* Properties of Save (checked under Spec).  req, resp and pre describe the *)
(* request handled last: its body, its response, and the Map and the disk   *)
(* before it.                                                               *)

SaveHandled == req.op = "save" /\ req.id \in DOMAIN pre.calendars

\* the state a Save is to adopt, as the specification words it
AdoptedState(old, r) ==
    IF \/ r.baseRevision.kind # "integer"
       \/ ~ r.hasBaseState
       \/ r.baseRevision.num = old.revision
    THEN normalizeState(r.state)
    ELSE mergeState(old.state, normalizeState(r.baseState), normalizeState(r.state))

\* C2 (revision monotonicity): a Save never lowers the calendar's revision,
\* raises it by exactly 1 when it changes the stored state and leaves it alone
\* when it does not.
C2_RevisionMonotonic ==
    SaveHandled =>
        LET old == pre.calendars[req.id]
            new == calendars[req.id]
        IN  /\ new.revision >= old.revision
            /\ new.state # old.state => new.revision = old.revision + 1
            /\ new.state = old.state => new.revision = old.revision

\* C2 witness: a second state-changing Save in a row has taken the revision
\* from 1 to 2.
C2_Witness ==
    /\ SaveHandled
    /\ pre.calendars[req.id].revision = 1
    /\ calendars[req.id].revision = 2
    /\ calendars[req.id].state # pre.calendars[req.id].state

\* C3 (save path selection): the stored state after a Save is the normalized
\* incoming state when baseRevision is no integer, or no base state came, or
\* baseRevision is the current revision; otherwise it is mergeState(stored,
\* normalized base, normalized incoming).
C3_SavePathSelection ==
    SaveHandled => calendars[req.id].state = AdoptedState(pre.calendars[req.id], req)

\* C3 witness: a stale Save with a base state was merged, and the result is
\* neither the incoming state nor the state stored before.
C3_Witness ==
    /\ SaveHandled
    /\ req.hasBaseState
    /\ req.baseRevision.kind = "integer"
    /\ req.baseRevision.num # pre.calendars[req.id].revision
    /\ calendars[req.id].state # normalizeState(req.state)
    /\ calendars[req.id].state # pre.calendars[req.id].state
    /\ calendars[req.id].state =
          mergeState(pre.calendars[req.id].state, normalizeState(req.baseState),
                     normalizeState(req.state))

\* C8 (no-op Save): when the state to adopt is deep-equal to the stored state,
\* the response is success with the stored state and revision, and the record
\* in the Map (state, revision, updatedAt, name) and the disk are unchanged.
C8_NoopSave ==
    (SaveHandled /\ AdoptedState(pre.calendars[req.id], req) = pre.calendars[req.id].state) =>
        /\ resp = [status |-> 200, state |-> pre.calendars[req.id].state,
                   revision |-> pre.calendars[req.id].revision]
        /\ calendars = pre.calendars
        /\ disk = pre.disk

\* C8 witness: a stale Save whose incoming state differs from the stored state
\* merged to the stored state, at revision 1 or later, and changed nothing.
C8_Witness ==
    /\ SaveHandled
    /\ req.hasBaseState
    /\ req.baseRevision.kind = "integer"
    /\ req.baseRevision.num # pre.calendars[req.id].revision
    /\ pre.calendars[req.id].revision >= 1
    /\ normalizeState(req.state) # pre.calendars[req.id].state
    /\ AdoptedState(pre.calendars[req.id], req) = pre.calendars[req.id].state
    /\ calendars = pre.calendars
    /\ resp.status = 200

\* a schedule state as section 3 of the specification describes it: settings
\* of the right kinds, every event in the bucket of its dayIndex, ids unique
\* and truthy, every bucket ordered by startMinutes
ValidState(st) ==
    /\ st.viewMode \in {"row", "grid", "day"}
    /\ st.numDays > 0
    /\ \A d \in DOMAIN st.events :
          /\ \A i \in 1..Len(st.events[d]) :
                /\ st.events[d][i].dayIndex = d
                /\ st.events[d][i].id # NoId
          /\ \A i, j \in 1..Len(st.events[d]) :
                i < j => st.events[d][i].startMinutes <= st.events[d][j].startMinutes
    /\ \A e \in AllEvents(st) : Occurrences(st, e.id) = 1

\* C9 (idempotence): when Save(id, S, S, r) with a valid state S has been
\* answered at a calendar whose revision was r before the call, the same Save
\* sent again leaves the stored state and the revision as the first call left
\* them.
C9_Idempotence ==
    [][(/\ req.op = "save"
        /\ req' = req
        /\ req.id \in DOMAIN pre.calendars
        /\ resp.status = 200
        /\ resp'.status = 200
        /\ req.hasBaseState
        /\ req.baseState = req.state
        /\ req.state = toJSON(normalizeState(req.state))
        /\ ValidState(normalizeState(req.state))
        /\ req.baseRevision = RevInt(pre.calendars[req.id].revision))
       => /\ calendars'[req.id].state = calendars[req.id].state
          /\ calendars'[req.id].revision = calendars[req.id].revision]_vars

\* C16 (store-level schedule-state invariant): in every stored state every
\* event id is unique across the buckets and every event lies in the bucket of
\* its own dayIndex.
C16_StoredStateInvariant ==
    \A id \in DOMAIN calendars :
        BucketsMatch(calendars[id].state) /\ IdsUnique(calendars[id].state)

\* C17 (stored viewMode is always valid): the viewMode of every stored state
\* is one of row, grid, day.
C17_StoredViewModeValid ==
    \A id \in DOMAIN calendars : calendars[id].state.viewMode \in {"row", "grid", "day"}

\* the value a body submits for a numeric setting, at the top level or, in the
\* legacy layout, under settings
Submitted(raw, key) == Coalesce(raw[key], raw.settings[key])

\* C18 (stored numeric settings are always valid): the stored numDays is
\* greater than 0; and in the state a Save takes from its body, a numDays that
\* was submitted missing, not as a number, zero or negative is 5, and a
\* startHour or endHour that was submitted missing or not as a number is 7 or
\* 22.
C18_StoredNumbersValid ==
    /\ \A id \in DOMAIN calendars : calendars[id].state.numDays > 0
    /\ SaveHandled =>
          LET incoming == normalizeState(req.state)
          IN  /\ (\/ Submitted(req.state, "numDays").kind # "number"
                   \/ Submitted(req.state, "numDays").num <= 0) => incoming.numDays = 5
              /\ Submitted(req.state, "startHour").kind # "number" => incoming.startHour = 7
              /\ Submitted(req.state, "endHour").kind # "number" => incoming.endHour = 22

----------------------------------------------------------------------------
(* Properties of the registry (checked under SpecRegistry).  req, resp and   *)
(* pre describe the request handled last; a timestamp taken by its handler   *)
(* is now - 1.                                                               *)

Handled(op) == req.op = op /\ req.id \in DOMAIN pre.calendars

\* the Map and the disk hold for every id but id what they held before
OthersUntouched(id) ==
    /\ DOMAIN calendars = DOMAIN pre.calendars
    /\ DOMAIN disk = DOMAIN pre.disk
    /\ \A i \in DOMAIN calendars \ {id} : calendars[i] = pre.calendars[i]
    /\ \A i \in DOMAIN disk \ {id} : disk[i] = pre.disk[i]

\* C12: storage failure is all-or-nothing: when the durable write fails
\* during Save, Create or Rename, the request is answered with an error and
\* the Map holds exactly what it held before the request.
C12_StorageFailureAtomic ==
    (req.op \in {"save", "create", "rename"} /\ resp.status = 500)
        => calendars = pre.calendars

NoRepeat(revisions) ==
    \A i, j \in 1..Len(revisions) : i # j => revisions[i] # revisions[j]

\* C13: a Save reads the current record, merges, replaces the record in the
\* Map and writes the file with no other request in between: after a Save
\* that was answered 200 the record of its calendar is the record before the
\* request with the adopted state, the next revision and the time of the
\* request (or the very same record when the adopted state is the stored
\* one), the file is that record, and nothing else changed; and no two
\* state-changing Saves of one calendar return the same revision.
C13_SerializedSaves ==
    /\ (Handled("save") /\ resp.status = 200) =>
          LET old == pre.calendars[req.id]
              nextState == AdoptedState(old, req)
          IN  /\ OthersUntouched(req.id)
              /\ IF nextState = old.state
                 THEN calendars[req.id] = old /\ disk[req.id] = pre.disk[req.id]
                 ELSE /\ calendars[req.id] =
                            [old EXCEPT !.state = nextState, !.revision = old.revision + 1,
                                        !.updatedAt = now - 1]
                      /\ disk[req.id] = FileOf(calendars[req.id])
              /\ resp.revision = calendars[req.id].revision
    /\ \A id \in DOMAIN returned : NoRepeat(returned[id])

\* two state-changing Saves of one calendar were answered, the second one a
\* stale save that was merged, and the calendar was renamed in the session
C13_Witness ==
    /\ Handled("save")
    /\ resp.status = 200
    /\ Len(returned[req.id]) = 2
    /\ req.baseRevision.num # pre.calendars[req.id].revision
    /\ Cardinality({e.id : e \in AllEvents(calendars[req.id].state)}) = 2
    /\ calendars[req.id].name = "Trip"

\* C19: a successful Rename changes the name and updatedAt of its calendar,
\* in the Map and in the file, and nothing else: state and revision stay.
\* A Save that follows with the baseRevision fetched before the Rename is
\* not merged: its state is adopted as sent.
C19_RenameKeepsSchedule ==
    /\ [](Handled("rename") /\ resp.status = 200 =>
             LET old == pre.calendars[req.id]
             IN  /\ OthersUntouched(req.id)
                 /\ calendars[req.id] =
                       [name |-> req.name.str, state |-> old.state,
                        revision |-> old.revision, updatedAt |-> now - 1]
                 /\ disk[req.id] = FileOf(calendars[req.id]))
    /\ [][(/\ Handled("rename") /\ resp.status = 200
           /\ req'.op = "save" /\ req'.id = req.id
           /\ req'.baseRevision = RevInt(pre.calendars[req.id].revision))
              => /\ resp'.status = 200
                 /\ calendars'[req.id].state = normalizeState(req'.state)
                 /\ resp'.state = normalizeState(req'.state)]_vars

\* a calendar holding a block at revision 1 was renamed, and the Rename was
\* answered 200
C19_Witness ==
    /\ Handled("rename")
    /\ resp.status = 200
    /\ pre.calendars[req.id].revision = 1
    /\ AllEvents(pre.calendars[req.id].state) # {}
    /\ calendars[req.id].name # pre.calendars[req.id].name

\* C20: a Rename of a known calendar with a name that is missing, empty or
\* no string is answered 400, and the Map and the disk are left as they were.
C20_RenameArgumentCheck ==
    (Handled("rename") /\ (req.name.kind # "string" \/ req.name.str = ""))
        => /\ resp.status = 400
           /\ calendars = pre.calendars
           /\ disk = pre.disk

\* a Rename with a number for a name was refused
C20_Witness ==
    /\ Handled("rename")
    /\ req.name = RawOther("42")
    /\ resp.status = 400

\* C21: Get, Save, Rename and Delete on an id that is not in the Map are
\* answered 404, and the Map and the disk are left as they were.
C21_UnknownIdRejected ==
    (req.op \in {"get", "save", "rename", "delete"} /\ req.id \notin DOMAIN pre.calendars)
        => /\ resp.status = 404
           /\ calendars = pre.calendars
           /\ disk = pre.disk

\* a Save with a state of its own was addressed to an id that is not in the
\* Map while another calendar is
C21_Witness ==
    /\ req.op = "save"
    /\ req.id \notin DOMAIN pre.calendars
    /\ DOMAIN pre.calendars # {}
    /\ req.state.events.kind = "object"
    /\ resp.status = 404

\* C23: a Create that is answered 200 puts one calendar into the Map under
\* an id that was not in it, at revision 0, with the default settings and no
\* events; its file is written; every other calendar and file is untouched;
\* the response carries the new id and the name.
C23_CreateRegistersOne ==
    (req.op = "create" /\ resp.status = 200) =>
        /\ resp.id \notin DOMAIN pre.calendars
        /\ DOMAIN calendars = DOMAIN pre.calendars \cup {resp.id}
        /\ DOMAIN disk = DOMAIN pre.disk \cup {resp.id}
        /\ \A i \in DOMAIN pre.calendars : calendars[i] = pre.calendars[i]
        /\ \A i \in DOMAIN pre.disk : disk[i] = pre.disk[i]
        /\ calendars[resp.id].revision = 0
        /\ calendars[resp.id].name = resp.name
        /\ calendars[resp.id].state.numDays = 5
        /\ calendars[resp.id].state.startHour = 7
        /\ calendars[resp.id].state.endHour = 22
        /\ calendars[resp.id].state.viewMode = "row"
        /\ calendars[resp.id].state.events = <<>>
        /\ disk[resp.id] = FileOf(calendars[resp.id])

\* a calendar named Trip was created next to a calendar that holds a block
\* at a revision above 0
C23_Witness ==
    /\ req.op = "create"
    /\ resp.status = 200
    /\ resp.name = "Trip"
    /\ \E i \in DOMAIN pre.calendars :
          /\ pre.calendars[i].revision > 0
          /\ pre.calendars[i].state.events # <<>>

\* C29: List answers with exactly one entry id, name, updatedAt for every
\* calendar in the Map, the entries in descending order of updatedAt, and
\* changes nothing in the Map or on disk.
C29_ListOrderedRead ==
    req.op = "list" =>
        /\ resp.status = 200
        /\ Len(resp.list) = Cardinality(DOMAIN calendars)
        /\ {resp.list[k].id : k \in 1..Len(resp.list)} = DOMAIN calendars
        /\ \A k \in 1..Len(resp.list) :
              /\ resp.list[k].name = calendars[resp.list[k].id].name
              /\ resp.list[k].updatedAt = calendars[resp.list[k].id].updatedAt
        /\ \A j, k \in 1..Len(resp.list) :
              j < k => resp.list[j].updatedAt >= resp.list[k].updatedAt
        /\ calendars = pre.calendars
        /\ disk = pre.disk

\* two calendars are listed, and the calendar created second is listed last
\* because the first one was changed after it
C29_Witness ==
    /\ req.op = "list"
    /\ Len(resp.list) = 2
    /\ resp.list[1].id = "c1"
    /\ resp.list[1].updatedAt > resp.list[2].updatedAt
    /\ resp.list[2].updatedAt > 0

----------------------------------------------------------------------------
(* Properties of starts and stops (checked under SpecStartup).  After a     *)
(* crash, req, resp and pre describe the request during which the process   *)
(* died, until the next request is handled.                                 *)

\* C22 (deleted is terminal): a calendar a Delete was answered 200 for is in
\* neither the Map nor the calendars directory, in this process and in every
\* later one, and every Get, Save, Rename and Delete on its id that comes
\* after that Delete is answered 404.
C22_DeletedIsTerminal ==
    /\ \A id \in gone : id \notin DOMAIN calendars /\ id \notin DOMAIN disk
    /\ (/\ req.op \in {"get", "save", "rename", "delete"}
        /\ resp.status # 0
        /\ req.id \in gone
        /\ ~ (req.op = "delete" /\ req.id \in DOMAIN pre.calendars))
           => resp.status = 404

\* C22 witness: a process started after the Delete of a calendar answers a
\* Save on its id, while another calendar is in the Map and the legacy file
\* exists
C22_Witness ==
    /\ up
    /\ restarts > 0
    /\ req.op = "save"
    /\ req.id \in gone
    /\ resp.status = 404
    /\ DOMAIN calendars # {}
    /\ legacy.exists

\* C24 (restart semantics): when the process starts, every calendar file
\* that parses is loaded at revision 0 with the name, state and updatedAt the
\* file holds, and nothing is in the Map that has no file.
C24_RestartSemantics ==
    [][(~ up /\ up') =>
          /\ \A id \in DOMAIN disk :
                Parses(disk[id]) =>
                    /\ id \in DOMAIN calendars'
                    /\ calendars'[id].revision = 0
                    /\ FileOf(calendars'[id]) = disk[id]
          /\ \A id \in DOMAIN calendars' :
                /\ id \in DOMAIN disk'
                /\ Parses(disk'[id])
                /\ FileOf(calendars'[id]) = disk'[id]
                /\ calendars'[id].revision = 0]_vars

\* C24 witness: the process was started a second time and loaded at
\* revision 0 a calendar with a block that an earlier process had saved, and
\* the old process had changed the Map after that Save
C24_Witness ==
    /\ up
    /\ restarts > 0
    /\ req.op = "none"
    /\ \E id \in DOMAIN calendars :
          /\ calendars[id].revision = 0
          /\ calendars[id].state.events # <<>>
          /\ calendars[id].updatedAt > 0
          /\ calendars[id].updatedAt + 1 < bootTime

\* C25 (legacy import happens at most once): over all starts of the server
\* the legacy file is imported at most once.
C25_LegacyImportOnce == Len(imports) <= 1

\* C26 (crash-atomic persistence): when the process died inside the disk
\* write of a Save or a Rename and was started again, the calendar is in the
\* Map with the complete record of before the write or the complete record
\* that was being written.
C26_CrashAtomic ==
    (up /\ req.op \in {"save", "rename"} /\ resp.status = 0) =>
        /\ req.id \in DOMAIN calendars
        /\ FileOf(calendars[req.id]) \in {pre.disk[req.id], resp.file}

----------------------------------------------------------------------------
(* Properties of clients and server together (checked under SpecSession,   *)
(* one server process, and SpecClients, where the process may restart).     *)
(* Restart drops the history, so req, resp and pre always describe a Save   *)
(* handled by the running server process.                                   *)

\* S is B with the one event e added, under an id B does not hold
AddsOne(B, S, e) ==
    /\ VersionsOf(B, e.id) = {}
    /\ AllEvents(S) = AllEvents(B) \cup {e}
    /\ Occurrences(S, e.id) = 1

\* C1 (end-to-end no lost update): when the calendar held state B at revision
\* r, and the server process handles, one after the other, two Saves that
\* both carry B as base state and r as baseRevision and each add one event
\* under ids that differ, the stored state after the second holds both events.
C1_NoLostUpdate ==
    [][(/\ req.op = "save"
        /\ req'.op = "save"
        /\ req'.id = req.id
        /\ pre' = Snapshot
        /\ req.id \in DOMAIN pre.calendars
        /\ resp.status = 200
        /\ resp'.status = 200
        /\ req.hasBaseState
        /\ req'.hasBaseState
        /\ req.baseRevision = RevInt(pre.calendars[req.id].revision)
        /\ req'.baseRevision = RevInt(pre.calendars[req.id].revision)
        /\ normalizeState(req.baseState) = pre.calendars[req.id].state
        /\ normalizeState(req'.baseState) = pre.calendars[req.id].state)
       => \A e1 \in AllEvents(normalizeState(req.state)),
             e2 \in AllEvents(normalizeState(req'.state)) :
             (/\ AddsOne(pre.calendars[req.id].state, normalizeState(req.state), e1)
              /\ AddsOne(pre.calendars[req.id].state, normalizeState(req'.state), e2)
              /\ e1.id # e2.id)
             => /\ e1 \in AllEvents(calendars'[req.id].state)
                /\ e2 \in AllEvents(calendars'[req.id].state)]_vars

\* C1 witness: both tabs loaded the calendar at one revision, each drew a
\* block, the first Save was adopted verbatim and the second, still carrying
\* the fetched state and revision, has just been merged: both blocks are
\* stored and both responses are known.
C1_Witness ==
    /\ SaveHandled
    /\ resp.status = 200
    /\ req.hasBaseState
    /\ req.baseRevision.kind = "integer"
    /\ pre.calendars[req.id].revision = req.baseRevision.num + 1
    /\ calendars[req.id].revision = req.baseRevision.num + 2
    /\ \E e1 \in AllEvents(pre.calendars[req.id].state),
          e2 \in AllEvents(normalizeState(req.state)) :
          /\ AddsOne(normalizeState(req.baseState), pre.calendars[req.id].state, e1)
          /\ AddsOne(normalizeState(req.baseState), normalizeState(req.state), e2)
          /\ e1.id # e2.id
          /\ e1 \in AllEvents(calendars[req.id].state)
          /\ e2 \in AllEvents(calendars[req.id].state)
    /\ \A c \in Clients : clients[c].created = 1

\* tab c shows the settings and the events the server stores
Synced(c) ==
    /\ clients[c].currentCalendarId \in DOMAIN calendars
    /\ SettingsOf(clients[c].state) = SettingsOf(calendars[clients[c].currentCalendarId].state)
    /\ AllEvents(clients[c].state) = AllEvents(calendars[clients[c].currentCalendarId].state)

\* every tab has loaded the calendar and no Save is under way
Quiet ==
    /\ \A c \in Clients : clients[c].isLoaded /\ clients[c].currentCalendarId # ""
    /\ saveReqs = {}
    /\ saveResps = {}

\* C11 (clients stay synced): the users make finitely many edits; from some
\* point on, whenever no Save is under way, every tab shows the settings and
\* the events the server stores.
C11_ClientsStaySynced == <>[](Quiet => \A c \in Clients : Synced(c))

\* C14 (consistent reads): the state, revision, name and updatedAt of every Get
\* response are the ones the Map held for that id in the state in which the
\* Get was handled, whatever Saves are handled before and after it.
C14_ConsistentReads ==
    [][\A c \in Clients :
          (/\ getResps'[c] # getResps[c]
           /\ getResps'[c].kind # "none"
           /\ getResps'[c].status = 200)
          => /\ getResps'[c].id \in DOMAIN calendars
             /\ getResps'[c] =
                   GetResponse(getResps'[c].kind, getResps'[c].id, 200,
                               calendars[getResps'[c].id])]_vars

\* C14 witness: a Get was answered at revision 1, after one state-changing
\* Save and before another that has since taken the calendar to revision 2;
\* the response on its way holds the state and updatedAt of revision 1.
C14_Witness ==
    \E c \in Clients :
        /\ getResps[c].kind = "poll"
        /\ getResps[c].status = 200
        /\ getResps[c].revision = 1
        /\ calendars[getResps[c].id].revision = 2
        /\ getResps[c].state # calendars[getResps[c].id].state
        /\ getResps[c].updatedAt # calendars[getResps[c].id].updatedAt
        /\ getResps[c].state # DEFAULT_CALENDAR_STATE

\* C10 (revision as fencing token, restarts included): whenever a Save that
\* carries a base state is adopted verbatim because its baseRevision is the
\* calendar's current revision, that base state is deep-equal to the state
\* stored at that moment.
C10_FencingToken ==
    (/\ SaveHandled
     /\ req.hasBaseState
     /\ req.baseRevision = RevInt(pre.calendars[req.id].revision))
    => deepEqual(normalizeState(req.baseState), pre.calendars[req.id].state)

\* the ids of the events a state holds
IdsOf(st) == {e.id : e \in AllEvents(st)}

\* C30 (events disappear only by user deletion): when the server handles a
\* Save, every event of the stored state that is gone from it afterwards is
\* one that the user of the saving tab deleted.
C30_OnlyDeletionRemoves ==
    [][\A m \in saveReqs \ saveReqs' :
          (req'.op = "save" /\ m.id \in DOMAIN calendars /\ m.id \in DOMAIN calendars')
              => IdsOf(calendars[m.id].state) \ IdsOf(calendars'[m.id].state)
                    \subseteq clients[m.client].deleted]_vars

\* C34 (memory and disk agree): after every Create, Save, Rename or Delete
\* that is answered with success, the calendars directory holds a file for
\* exactly the ids in the Map, and every file holds the name, state and
\* updatedAt of the Map's record.
C34_MemoryDiskAgree ==
    (req.op \in {"create", "save", "rename", "delete"} /\ resp.status = 200) =>
        /\ DOMAIN disk = DOMAIN calendars
        /\ \A id \in DOMAIN calendars : disk[id] = FileOf(calendars[id])

\* C35 (calendars are isolated): a Save, a Rename or a Delete addressed to
\* one calendar id, whatever its outcome, leaves every other calendar in the
\* Map or not as it was, with the name, state, revision and updatedAt it had,
\* and its file as it was.
C35_CalendarsIsolated ==
    req.op \in {"save", "rename", "delete"} =>
        \A b \in CalIds \ {req.id} :
            /\ b \in DOMAIN calendars <=> b \in DOMAIN pre.calendars
            /\ b \in DOMAIN calendars => calendars[b] = pre.calendars[b]
            /\ b \in DOMAIN disk <=> b \in DOMAIN pre.disk
            /\ b \in DOMAIN disk => disk[b] = pre.disk[b]

\* C35 witness: a calendar was renamed while another calendar, which had
\* been saved to revision 1, was in the Map; the renamed record changed.
C35_Witness ==
    /\ req.op = "rename"
    /\ resp.status = 200
    /\ calendars[req.id] # pre.calendars[req.id]
    /\ disk[req.id] # pre.disk[req.id]
    /\ \E b \in DOMAIN calendars \ {req.id} :
          /\ calendars[b].revision = 1
          /\ disk[b] = FileOf(calendars[b])

----------------------------------------------------------------------------
(* Properties of a server session with the legacy endpoints *)

\* the request handled last was answered with a calendar's state and revision
Answered ==
    /\ req.op \in {"get", "save", "legacyGet", "legacySave"}
    /\ resp.status = 200
    /\ req.id # ""

\* C33 (the revision determines the state): any two Get or Save responses
\* of one server session that were sent for the same calendar with the same
\* revision carry deep-equal states, with Saves, Renames and legacy saves in
\* between: the response just sent agrees with whichever earlier response
\* was kept.
C33_RevisionDeterminesState ==
    \A a \in served :
        (Answered /\ req.id = a.id /\ resp.revision = a.revision)
            => deepEqual(resp.state, a.state)

\* C33 witness: a legacy save was answered with revision 2 and kept; the
\* calendar was saved by id and renamed in the session; a Get of it is
\* answered with revision 2.
C33_Witness ==
    \E a \in served :
        /\ a.op = "legacySave"
        /\ a.revision = 2
        /\ req.op = "get" /\ req.id = a.id /\ resp.status = 200
        /\ resp.revision = a.revision
        /\ Len(returned[a.id]) = 1
        /\ calendars[a.id].name = "Trip"

\* C39 (legacy save endpoint): POST /api/calendar is answered 404 and changes
\* nothing when the Map is empty; otherwise the calendar it addresses is one
\* with the greatest updatedAt, whose state becomes the normalized incoming
\* state with no merge, whose revision grows by exactly 1 also when the
\* state is the one already stored, whose file is written (when the write
\* does not fail), and every other calendar is as it was.
C39_LegacySave ==
    req.op = "legacySave" =>
        IF DOMAIN pre.calendars = {}
        THEN resp.status = 404 /\ calendars = pre.calendars /\ disk = pre.disk
        ELSE LET old == pre.calendars[req.id]
                 cal == calendars[req.id]
             IN  /\ \A i \in DOMAIN pre.calendars : pre.calendars[i].updatedAt <= old.updatedAt
                 /\ cal = [old EXCEPT !.state = normalizeState(legacyPayload(req.body)),
                                      !.revision = old.revision + 1,
                                      !.updatedAt = now - 1]
                 /\ OthersUntouched(req.id)
                 /\ resp.status \in {200, 500}
                 /\ resp.status = 200 =>
                       /\ disk[req.id] = FileOf(cal)
                       /\ resp.state = cal.state
                       /\ resp.revision = cal.revision

\* C39 witness: of two calendars the one updated later was sent, by the old
\* client with a base state and a base revision that is not its revision,
\* the state it already held; it holds the same state at the next revision
\* and the file is written.
C39_Witness ==
    /\ req.op = "legacySave"
    /\ resp.status = 200
    /\ req.body.hasBaseState
    /\ \E other \in DOMAIN pre.calendars :
          pre.calendars[other].updatedAt < pre.calendars[req.id].updatedAt
    /\ pre.calendars[req.id].revision = 1
    /\ calendars[req.id].state = pre.calendars[req.id].state
    /\ calendars[req.id].revision = 2
    /\ disk[req.id] = FileOf(calendars[req.id])

----------------------------------------------------------------------------
(* Properties of a tab with several Saves under way *)

\* the Save responses a step delivers to their tab
Delivered == saveResps \ saveResps'

C38_LatestSaveCounts ==
    [][\A m \in Delivered :
          LET c == m.client
          IN  IF m.status = 200 /\ m.seq = clients[c].saveSeq
              THEN /\ clients'[c].baseState = parseCalendarResponse(m).state
                   /\ clients'[c].serverRevision = m.revision
              ELSE /\ clients'[c].baseState = clients[c].baseState
                   /\ clients'[c].serverRevision = clients[c].serverRevision]_vars

\* C38 witness: the hasty tab posted two Saves after its first; the response
\* to the last one has set its base, and the response to the one before,
\* which carries another state and an earlier revision, reaches it next.
C38_Witness ==
    /\ clients[Hasty].saveSeq = 3
    /\ InFlight(Hasty) = 1
    /\ \E m \in saveResps :
          /\ m.client = Hasty
          /\ m.seq = 2
          /\ m.status = 200
          /\ m.revision < clients[Hasty].serverRevision
          /\ m.state # clients[Hasty].baseState

----------------------------------------------------------------------------
\* Properties of a tab that switches between calendars

\* C36: every Save that is on its way to calendar X carries a state that was
\* built from a response for calendar X, and a base state and a base revision
\* that were taken from a response for calendar X.
C36_NeverMixesCalendars ==
    \A m \in saveReqs : m.stateFrom = m.id /\ m.baseFrom = m.id

====
